---- MODULE Spec2Model ----
(***************************************************************************)
(* State-machine model of the resilient client core of the dengue          *)
(* dashboard: the prediction client and the report client                  *)
(* (src/src/lib/advanced-dengue-ai-client.ts) and the weather gateway with *)
(* its cache and risk scorer (src/src/services/weatherService.ts).         *)
(*                                                                         *)
(* JavaScript numbers are IEEE-754 binary64 values.  The simulated         *)
(* prediction adds, divides and multiplies decimal fractions, and its      *)
(* results depend on the rounding of those operations, so numbers are      *)
(* modelled as binary64 values with round-to-nearest-even arithmetic.      *)
(***************************************************************************)
EXTENDS Integers, Sequences, FiniteSets, TLC

(***************************************************************************)
(* With(v, F) is F(v) with v evaluated once, whatever the number of times  *)
(* F uses it: the value is bound by a quantifier, not by a definition.     *)
(***************************************************************************)
With(v, F(_)) == CHOOSE r \in {F(x) : x \in {v}} : TRUE

(***************************************************************************)
(* Unbounded naturals as sequences of limbs of LimbBits bits, least        *)
(* significant limb first and no zero limb at the top: the integers of the *)
(* model checker are too narrow for a 53-bit significand.                  *)
(***************************************************************************)
LimbBits == 15

Base == 2 ^ LimbBits

RECURSIVE LTrim(_)
LTrim(a0) ==
  With(a0, LAMBDA a :
    IF a = <<>> \/ a[Len(a)] # 0 THEN a ELSE LTrim(SubSeq(a, 1, Len(a) - 1)))

Limb(a, i) == IF i <= Len(a) THEN a[i] ELSE 0

\* limbs i and up of a + b, c the carry into limb i
RECURSIVE LAddFrom(_, _, _, _)
LAddFrom(a, b, i, c) ==
  IF i > Len(a) /\ i > Len(b) THEN (IF c = 0 THEN <<>> ELSE <<c>>)
  ELSE With(Limb(a, i) + Limb(b, i) + c, LAMBDA t :
         <<t % Base>> \o LAddFrom(a, b, i + 1, t \div Base))

LAdd(a0, b0) == With(<<a0, b0>>, LAMBDA p : LAddFrom(p[1], p[2], 1, 0))

\* limbs i and up of a - b for a >= b, bw the borrow from limb i
RECURSIVE LSubFrom(_, _, _, _)
LSubFrom(a, b, i, bw) ==
  IF i > Len(a) THEN <<>>
  ELSE With(a[i] - Limb(b, i) - bw, LAMBDA t :
         IF t < 0 THEN <<t + Base>> \o LSubFrom(a, b, i + 1, 1)
         ELSE <<t>> \o LSubFrom(a, b, i + 1, 0))

LSub(a0, b0) == With(<<a0, b0>>, LAMBDA p : LTrim(LSubFrom(p[1], p[2], 1, 0)))

\* limbs i and up of a * k for 0 < k < Base, c the carry into limb i
RECURSIVE LMulFrom(_, _, _, _)
LMulFrom(a, k, i, c) ==
  IF i > Len(a) THEN (IF c = 0 THEN <<>> ELSE <<c>>)
  ELSE With(a[i] * k + c, LAMBDA t :
         <<t % Base>> \o LMulFrom(a, k, i + 1, t \div Base))

LMul(a0, k) == With(a0, LAMBDA a : LMulFrom(a, k, 1, 0))

\* long division of limbs i down to 1 of a by 0 < d < Base, r the remainder
\* carried in from the limbs above i
RECURSIVE LDivFrom(_, _, _, _)
LDivFrom(a, d, i, r) ==
  IF i = 0 THEN [q |-> <<>>, r |-> r]
  ELSE With(r * Base + a[i], LAMBDA t :
       With(LDivFrom(a, d, i - 1, t % d), LAMBDA low :
         [q |-> Append(low.q, t \div d), r |-> low.r]))

\* quotient and remainder of a by 0 < d < Base
LDiv(a0, d) ==
  With(a0, LAMBDA a :
  With(LDivFrom(a, d, Len(a), 0), LAMBDA res :
    [q |-> LTrim(res.q), r |-> res.r]))

\* a * 2^k
LShl(a0, k) ==
  With(a0, LAMBDA a :
    IF a = <<>> THEN <<>>
    ELSE [i \in 1..(k \div LimbBits) |-> 0] \o LMul(a, 2 ^ (k % LimbBits)))

\* a \div 2^k, and whether a non-zero bit was shifted out
LShr(a0, k) ==
  With(a0, LAMBDA a :
  With(k \div LimbBits, LAMBDA w :
    IF w >= Len(a) THEN [q |-> <<>>, r |-> a # <<>>]
    ELSE With(LDiv(SubSeq(a, w + 1, Len(a)), 2 ^ (k % LimbBits)), LAMBDA res :
           [q |-> res.q, r |-> res.r # 0 \/ \E i \in 1..w : a[i] # 0])))

\* the number of bits of a
LBitLen(a0) ==
  With(a0, LAMBDA a :
    IF a = <<>> THEN 0
    ELSE LimbBits * (Len(a) - 1)
           + (CHOOSE k \in 1..LimbBits :
                2 ^ (k - 1) <= a[Len(a)] /\ a[Len(a)] < 2 ^ k))

\* a < b
LLess(a0, b0) ==
  With(<<a0, b0>>, LAMBDA p :
    LET a == p[1]
        b == p[2]
    IN  IF Len(a) # Len(b) THEN Len(a) < Len(b)
        ELSE \E i \in 1..Len(a) :
               a[i] < b[i] /\ \A j \in (i + 1)..Len(a) : a[j] = b[j])

RECURSIVE LFromInt(_)
LFromInt(n) == IF n = 0 THEN <<>> ELSE <<n % Base>> \o LFromInt(n \div Base)

RECURSIVE LToInt(_)
LToInt(a) == IF a = <<>> THEN 0 ELSE a[1] + Base * LToInt(Tail(a))

(***************************************************************************)
(* binary64: a finite number is [neg, m, e] with value (-1)^neg * m * 2^e, *)
(* m an odd significand of at most Precision bits (m = <<>> for zero), so  *)
(* that equal numbers are equal records.  Every                            *)
(* JavaScript value is a record whose tag t tells a number from NaN,       *)
(* undefined, null, strings, arrays and objects.  Subnormals, infinities   *)
(* and overflow do not occur for the magnitudes this program computes      *)
(* with.                                                                   *)
(***************************************************************************)
Precision == 53

NaN == [t |-> "NaN"]

Undefined == [t |-> "undefined"]

FZero == [t |-> "number", neg |-> FALSE, m |-> <<>>, e |-> 0]

FNum(neg, m, e) == [t |-> "number", neg |-> neg, m |-> m, e |-> e]

\* the number of zero bits at the bottom of a # <<>>
LTrailingZeros(a) ==
  With(CHOOSE i \in 1..Len(a) : a[i] # 0 /\ \A j \in 1..(i - 1) : a[j] = 0,
       LAMBDA i :
    LimbBits * (i - 1)
      + (CHOOSE k \in 0..(LimbBits - 1) :
           a[i] % 2 ^ k = 0 /\ a[i] % 2 ^ (k + 1) # 0))

\* n * 2^e for n # <<>> of at most Precision bits, with its significand odd
FOdd(neg, n, e) ==
  IF n[1] % 2 = 1 THEN FNum(neg, n, e)
  ELSE With(LTrailingZeros(n), LAMBDA k : FNum(neg, LShr(n, k).q, e + k))

\* n of more than Precision bits, times 2^e, rounded: drop is the number of
\* bits to discard
FRoundLong(neg, n, e, sticky, drop) ==
  With(LShr(n, drop - 1), LAMBDA g :
  With(LShr(g.q, 1).q, LAMBDA kept :
  With(IF g.q[1] % 2 = 1 /\ (sticky \/ g.r \/ kept[1] % 2 = 1)
         THEN LAdd(kept, <<1>>) ELSE kept, LAMBDA r :
    FOdd(neg, r, e + drop))))

\* n0 * 2^e (with `sticky' for discarded non-zero bits below n0), rounded to
\* nearest, ties to even
FRound(neg, n0, e, sticky) ==
  With(LTrim(n0), LAMBDA n :
    IF n = <<>> THEN FZero
    ELSE IF Len(n) * LimbBits <= Precision THEN FOdd(neg, n, e)
    ELSE With(LBitLen(n), LAMBDA len :
           IF len <= Precision THEN FOdd(neg, n, e)
           ELSE FRoundLong(neg, n, e, sticky, len - Precision)))

FFromInt(n) ==
  IF n = 0 THEN FZero
  ELSE IF n < 0 THEN FOdd(TRUE, LFromInt(-n), 0)
  ELSE FOdd(FALSE, LFromInt(n), 0)

IsNum(x) == x.t = "number"

FMinE(x, y) == IF x.e <= y.e THEN x.e ELSE y.e

\* |x| < |y| for finite x, y
FMagLess(x, y) ==
  IF x.m = <<>> THEN y.m # <<>>
  ELSE IF y.m = <<>> THEN FALSE
  ELSE With(<<LBitLen(x.m) + x.e, LBitLen(y.m) + y.e>>, LAMBDA top :
         IF top[1] # top[2] THEN top[1] < top[2]
         ELSE IF x.e = y.e THEN LLess(x.m, y.m)
         ELSE With(FMinE(x, y), LAMBDA lo :
                LLess(LShl(x.m, x.e - lo), LShl(y.m, y.e - lo))))

\* x < y (false when either is NaN, as in IEEE-754)
FLt(x0, y0) ==
  With(<<x0, y0>>, LAMBDA p :
    LET x == p[1]
        y == p[2]
    IN  /\ IsNum(x) /\ IsNum(y)
        /\ IF x.neg /\ ~y.neg THEN x.m # <<>> \/ y.m # <<>>
           ELSE IF ~x.neg /\ y.neg THEN FALSE
           ELSE IF x.neg THEN FMagLess(y, x)
           ELSE FMagLess(x, y))

FGt(x, y) == FLt(y, x)

FLe(x, y) == With(<<x, y>>, LAMBDA p :
               IsNum(p[1]) /\ IsNum(p[2]) /\ ~FLt(p[2], p[1]))

FGe(x, y) == FLe(y, x)

\* x + y for finite non-zero x and y
FAddNum(x, y) ==
  With(FMinE(x, y), LAMBDA lo :
  With(LShl(x.m, x.e - lo), LAMBDA nx :
  With(LShl(y.m, y.e - lo), LAMBDA ny :
    IF x.neg = y.neg THEN FRound(x.neg, LAdd(nx, ny), lo, FALSE)
    ELSE IF LLess(ny, nx) THEN FRound(x.neg, LSub(nx, ny), lo, FALSE)
    ELSE FRound(y.neg, LSub(ny, nx), lo, FALSE))))

\* x + y
FAdd(x0, y0) ==
  With(<<x0, y0>>, LAMBDA p :
    LET x == p[1]
        y == p[2]
    IN  IF ~IsNum(x) \/ ~IsNum(y) THEN NaN
        ELSE IF x.m = <<>> THEN y
        ELSE IF y.m = <<>> THEN x
        ELSE FAddNum(x, y))

\* x * 2^k, exact for the magnitudes of this model
FScale(x, k) == IF x.m = <<>> THEN x ELSE [x EXCEPT !.e = @ + k]

\* x / d for an integer 0 < d < Base
FDivInt(x0, d) ==
  With(x0, LAMBDA x :
    IF ~IsNum(x) THEN NaN
    ELSE IF x.m = <<>> THEN x
    ELSE With(Precision + 2 + LBitLen(<<d>>), LAMBDA k :
         With(LDiv(LShl(x.m, k), d), LAMBDA qr :
           FRound(x.neg, qr.q, x.e - k, qr.r # 0))))

\* x * k for an integer 0 < k < Base
FMulInt(x0, k) ==
  With(x0, LAMBDA x :
    IF ~IsNum(x) THEN NaN
    ELSE FRound(x.neg, LMul(x.m, k), x.e, FALSE))

\* the integer part of |x| and whether |x| has a fractional part
FTruncate(x) ==
  IF x.m = <<>> THEN [q |-> 0, r |-> FALSE]
  ELSE IF x.e >= 0 THEN [q |-> LToInt(LShl(x.m, x.e)), r |-> FALSE]
  ELSE With(LShr(x.m, -x.e), LAMBDA res : [q |-> LToInt(res.q), r |-> res.r])

\* Math.floor of a finite x as an integer
FFloor(x0) ==
  With(x0, LAMBDA x :
  With(FTruncate(x), LAMBDA tr :
    IF ~x.neg THEN tr.q ELSE IF tr.r THEN -(tr.q + 1) ELSE -tr.q))

\* Math.min(x, y)
FMin(x0, y0) ==
  With(<<x0, y0>>, LAMBDA p :
    IF ~IsNum(p[1]) \/ ~IsNum(p[2]) THEN NaN
    ELSE IF FLt(p[2], p[1]) THEN p[2] ELSE p[1])

\* the binary64 value nearest to the decimal literal n / 10^k, n > 0, k <= 2
FDec(n, k) ==
  With(LDiv(LShl(LFromInt(n), 64), 10 ^ k), LAMBDA qr :
    FRound(FALSE, qr.q, -64, qr.r # 0))

(***************************************************************************)
(* JavaScript values other than numbers, property access and `||'.         *)
(* An object is a record with t = "object" and one field per property it   *)
(* has: a missing property is a field the record does not have.            *)
(***************************************************************************)
Null == [t |-> "null"]

JStr(s) == [t |-> "string", s |-> s]

JArr(items) == [t |-> "array", items |-> items]

JObj(props) == [t |-> "object"] @@ props

Has(o, f) == f \in DOMAIN o

\* o.f: undefined when the property is missing
Get(o, f) == IF f \in DOMAIN o THEN o[f] ELSE Undefined

\* ToBoolean: undefined, null, NaN, 0 and "" are falsy
Truthy(v) ==
  CASE v.t = "undefined" -> FALSE
    [] v.t = "null"      -> FALSE
    [] v.t = "NaN"       -> FALSE
    [] v.t = "number"    -> v.m # <<>>
    [] v.t = "string"    -> v.s # ""
    [] v.t = "text"      -> v.chars # <<>>
    [] v.t = "boolean"   -> v.b
    [] OTHER             -> TRUE

\* a property that holds an object
Present(o, f) == Get(o, f).t = "object"

\* a || b
Or(a, b) == With(a, LAMBDA v : IF Truthy(v) THEN v ELSE b)

\* a > n for an integer literal n
GtInt(a, n) == FGt(a, FFromInt(n))

\* the literal 1
FOne == FFromInt(1)

\* the completion of an async function body: a returned value or a throw
Return(v) == [kind |-> "return", value |-> v]

Throw(what) == [kind |-> "throw", value |-> JStr(what)]

\* new Date().toISOString()
IsoNow == JStr("new Date().toISOString()")

(***************************************************************************)
(* AdvancedDengueAIClient.getSimulatedPrediction                           *)
(***************************************************************************)
TempRiskLow(data) ==
  IF GtInt(Get(data, "temperature"), 32) THEN FDec(8, 1) ELSE FDec(5, 1)

TempRisk(data) ==
  IF GtInt(Get(data, "temperature"), 28) THEN FDec(8, 1) ELSE FDec(5, 1)

HumidityRiskHigh(data) ==
  IF GtInt(Get(data, "humidity"), 80) THEN FDec(9, 1) ELSE FDec(6, 1)

HumidityRisk(data) ==
  IF GtInt(Get(data, "humidity"), 70) THEN FDec(9, 1) ELSE FDec(6, 1)

\* a rainfall impact of 0.3 for little rain
RainfallRiskFrom03(data) ==
  IF GtInt(Get(data, "rainfall"), 5) THEN FDec(7, 1) ELSE FDec(3, 1)

RainfallRisk(data) ==
  IF GtInt(Get(data, "rainfall"), 5) THEN FDec(7, 1) ELSE FDec(4, 1)

AvgRisk(tempRisk, humidityRisk, rainfallRisk) ==
  FDivInt(FAdd(FAdd(tempRisk, humidityRisk), rainfallRisk), 3)

SimRiskLevel(avgRisk) ==
  IF FGt(avgRisk, FDec(8, 1)) THEN "Critical"
  ELSE IF FGt(avgRisk, FDec(6, 1)) THEN "High"
  ELSE IF FGt(avgRisk, FDec(4, 1)) THEN "Medium"
  ELSE "Low"

SimRecommendations ==
  JArr(<<"Remove all sources of standing water",
         "Use mosquito repellent during peak hours",
         "Keep surroundings clean and dry",
         "Monitor for fever symptoms",
         "Contact local health authorities if symptoms appear">>)

getSimulatedPrediction(data) ==
  With(TempRisk(data), LAMBDA tempRisk :
  With(HumidityRisk(data), LAMBDA humidityRisk :
  With(RainfallRisk(data), LAMBDA rainfallRisk :
  With(AvgRisk(tempRisk, humidityRisk, rainfallRisk), LAMBDA avgRisk :
  With(SimRiskLevel(avgRisk), LAMBDA riskLevel :
      [status |-> "success (simulated)",
       prediction |->
         [outbreak_probability |-> avgRisk,
          risk_level           |-> JStr(riskLevel),
          predicted_cases      |-> FFromInt(FFloor(FMulInt(avgRisk, 150))),
          confidence           |-> FDec(75, 2)],
       environmental_factors |->
         [temperature_impact        |-> tempRisk,
          humidity_impact           |-> humidityRisk,
          rainfall_impact           |-> rainfallRisk,
          population_density_impact |-> FDec(6, 1)],
       recommendations |-> SimRecommendations,
       real_ai_analysis |->
         [model_used         |-> "RandomForest",
          feature_importance |-> [temperature |-> tempRisk,
                                  humidity    |-> humidityRisk,
                                  rainfall    |-> rainfallRisk],
          accuracy_score     |-> FDec(75, 2),
          data_source        |-> "Malaysian_Real_Data"],
       quantum_insights |->
         [optimal_response_strategy |-> "Standard prevention with monitoring",
          resource_allocation |-> [prevention_priority  |-> riskLevel,
                                   monitoring_intensity |-> "Standard"]],
       weather_data |->
         JObj([temperature |-> Get(data, "temperature"),
               humidity    |-> Get(data, "humidity"),
               rainfall    |-> Get(data, "rainfall"),
               simulated   |-> [t |-> "boolean", b |-> TRUE]]),
       timestamp |-> IsoNow])))))

(***************************************************************************)
(* AdvancedDengueAIClient.predictOutbreak, the branch taken once the       *)
(* prediction endpoint answered OK and its body was parsed.                *)
(***************************************************************************)
\* result.ai_analysis || result.risk_assessment || result.basic_prediction || result
SelectPredictionSwapped(result) ==
  Or(Get(result, "risk_assessment"),
     Or(Get(result, "ai_analysis"), Or(Get(result, "basic_prediction"), result)))

SelectPrediction(result) ==
  Or(Get(result, "ai_analysis"),
     Or(Get(result, "risk_assessment"), Or(Get(result, "basic_prediction"), result)))

\* result.real_weather_data || result.weather_data
SelectWeather(result) ==
  Or(Get(result, "real_weather_data"), Get(result, "weather_data"))

DefaultRecommendations ==
  JArr(<<"Remove all sources of standing water",
         "Use mosquito repellent during peak hours",
         "Keep surroundings clean and dry",
         "Monitor for fever symptoms">>)

\* prediction.risk_level || "Medium"
RiskLevelOrDefaultNone(prediction) == Get(prediction, "risk_level")

RiskLevelOrDefault(prediction) ==
  Or(Get(prediction, "risk_level"), JStr("Medium"))

TransformPrediction(result) ==
  With(SelectPrediction(result), LAMBDA prediction :
  With(SelectWeather(result), LAMBDA weatherData :
  With(Truthy(weatherData), LAMBDA hasWeather :
      [status |-> "success",
       prediction |->
         [outbreak_probability |->
            FDivInt(Or(Get(prediction, "risk_score"),
                       Or(Get(prediction, "confidence"), FDec(7, 1))), 100),
          risk_level      |-> RiskLevelOrDefault(prediction),
          predicted_cases |-> Or(Get(prediction, "predicted_cases"), FFromInt(85)),
          confidence      |-> Or(Get(prediction, "confidence"), FDec(85, 2))],
       environmental_factors |->
         [temperature_impact |->
            IF hasWeather THEN FDivInt(Get(weatherData, "temperature"), 40)
            ELSE FDec(75, 2),
          humidity_impact |->
            IF hasWeather THEN FDivInt(Get(weatherData, "humidity"), 100)
            ELSE FDec(8, 1),
          rainfall_impact |->
            IF hasWeather
              THEN FMin(FDivInt(Get(weatherData, "rainfall"), 50), FOne)
              ELSE FDec(3, 1),
          population_density_impact |-> FDec(6, 1)],
       recommendations |-> Or(Get(result, "recommendations"), DefaultRecommendations),
       real_ai_analysis |->
         [model_used         |-> "RandomForest",
          feature_importance |->
            [temperature |-> Or(FDivInt(Get(weatherData, "temperature"), 40), FDec(75, 2)),
             humidity    |-> Or(FDivInt(Get(weatherData, "humidity"), 100), FDec(8, 1)),
             rainfall    |->
               IF hasWeather
                 THEN FMin(FDivInt(Get(weatherData, "rainfall"), 50), FOne)
                 ELSE FDec(3, 1)],
          accuracy_score     |-> FDec(89, 2),
          data_source        |-> "Malaysian_Real_Data"],
       quantum_insights |->
         [optimal_response_strategy |->
            "Enhanced monitoring with immediate prevention",
          resource_allocation |-> [prevention_priority  |-> "High",
                                   monitoring_intensity |-> "Enhanced"]],
       weather_data |-> weatherData,
       timestamp |-> IsoNow])))

(***************************************************************************)
(* AdvancedDengueAIClient.predictOutbreak as completions of its steps.     *)
(* A fetch ends "ok" (response.ok), "nonok" (a response that is not ok) or *)
(* "throw" (fetch rejects: a transport error).  A body is a parsed JSON    *)
(* value or Unparsable (response.json() rejects).                          *)
(***************************************************************************)
Unparsable == [t |-> "unparsable"]

NoBody == [t |-> "none"]

Pending == [kind |-> "pending"]

\* an async function resolves with what its body returns and rejects with
\* what it throws
Settle(c) ==
  IF c.kind = "return" THEN [kind |-> "resolved", value |-> c.value]
  ELSE [kind |-> "rejected", value |-> c.value]

\* if (!healthResponse.ok) return this.getSimulatedPrediction(data)
ProbeOkAnyResponse(h) == h # "throw"

ProbeOk(h) == h = "ok"

\* the completion of the try block when the health fetch did not return ok
AfterHealth(req, h) ==
  IF h = "throw" THEN Throw("TypeError: Failed to fetch")
  ELSE Return(getSimulatedPrediction(req))

\* the completion of the try block after the prediction fetch, the error
\* property of the payload not looked at
AfterPredictTrustingPayload(req, r, b) ==
  IF r = "throw" THEN Throw("TypeError: Failed to fetch")
  ELSE IF r = "nonok" THEN Return(getSimulatedPrediction(req))
  ELSE IF b.t = "unparsable" THEN Throw("SyntaxError")
  ELSE IF b.t = "null" THEN Throw("TypeError: result is null")
  ELSE Return(TransformPrediction(b))

\* the completion of the try block after the prediction fetch ended with r
\* and, for a response, its body read as b
AfterPredict(req, r, b) ==
  IF r = "throw" THEN Throw("TypeError: Failed to fetch")
  ELSE IF r = "nonok" THEN Return(getSimulatedPrediction(req))
  ELSE IF b.t = "unparsable" THEN Throw("SyntaxError")
  ELSE IF b.t = "null" THEN Throw("TypeError: result is null")
  ELSE IF Truthy(Get(b, "error")) THEN Return(getSimulatedPrediction(req))
  ELSE Return(TransformPrediction(b))

\* catch (error) { return this.getSimulatedPrediction(data) }
CatchAllRethrow(req, c) == c

CatchAll(req, c) ==
  IF c.kind = "throw" THEN Return(getSimulatedPrediction(req)) ELSE c

(***************************************************************************)
(* The requests and the backend payloads the model draws from.             *)
(***************************************************************************)
NoProps == [x \in {} |-> x]

\* the property f with value v, or no property when v is undefined
Opt(f, v) == IF v.t = "undefined" THEN NoProps ELSE (f :> v)

Requests ==
  { JObj([location |-> JStr("Kuala Lumpur"), state |-> JStr("Selangor")]
         @@ Opt("temperature", tv) @@ Opt("humidity", hv) @@ Opt("rainfall", rv)) :
      tv \in {Undefined, FFromInt(28), FFromInt(32)},
      hv \in {Undefined, FFromInt(70), FFromInt(80)},
      rv \in {Undefined, FFromInt(5), FFromInt(10)} }

PredictionFields(score, conf, level, cases) ==
  Opt("risk_score", score) @@ Opt("confidence", conf)
    @@ Opt("risk_level", level) @@ Opt("predicted_cases", cases)

AiAnalysisFull ==
  JObj(PredictionFields(FFromInt(90), FDec(9, 1), JStr("Critical"), FFromInt(140)))

RiskAssessmentFull ==
  JObj(PredictionFields(FFromInt(60), FDec(6, 1), JStr("High"), FFromInt(70)))

BasicPredictionFull ==
  JObj(PredictionFields(FFromInt(30), FDec(3, 1), JStr("Low"), FFromInt(20)))

TopLevelFull == PredictionFields(FFromInt(45), FDec(5, 1), JStr("High"), FFromInt(42))

WeatherObj(tv, hv, rv) ==
  JObj(Opt("temperature", tv) @@ Opt("humidity", hv) @@ Opt("rainfall", rv))

RealWeatherFull == WeatherObj(FFromInt(31), FFromInt(75), FFromInt(20))

WeatherFull == WeatherObj(FFromInt(30), FFromInt(80), FFromInt(10))

WeatherVariants ==
  { Undefined,
    WeatherFull,
    WeatherObj(Undefined, FFromInt(80), FFromInt(10)),
    WeatherObj(FFromInt(30), Undefined, FFromInt(10)),
    WeatherObj(FFromInt(30), FFromInt(80), Undefined),
    WeatherObj(FFromInt(45), FFromInt(80), FFromInt(120)),
    WeatherObj(FFromInt(30), FFromInt(80), FFromInt(-5)) }

BackendRecommendations == JArr(<<"Fogging scheduled for the area">>)

\* payloads that differ in which response variants they carry
VariantBodies ==
  { JObj(TopLevelFull @@ Opt("ai_analysis", ai) @@ Opt("risk_assessment", ra)
           @@ Opt("basic_prediction", bp) @@ Opt("real_weather_data", rw)
           @@ Opt("weather_data", wd)) :
      ai \in {Undefined, Null, AiAnalysisFull, JObj(NoProps)},
      ra \in {Undefined, RiskAssessmentFull},
      bp \in {Undefined, BasicPredictionFull},
      rw \in {Undefined, RealWeatherFull},
      wd \in {Undefined, WeatherFull} }

\* payloads of the plain shape that differ in the prediction fields they
\* carry and in their values
FieldBodies ==
  { JObj(PredictionFields(score, conf, level, cases) @@ Opt("weather_data", wd)
           @@ Opt("recommendations", rec)) :
      score \in {Undefined, FZero, FFromInt(45), FFromInt(150)},
      conf  \in {Undefined, FDec(9, 1), FFromInt(90)},
      level \in {Undefined, JStr("High")},
      cases \in {Undefined, FFromInt(42)},
      wd    \in {Undefined, WeatherFull},
      rec   \in {Undefined, BackendRecommendations} }

\* payloads of the plain shape that differ in their weather record
WeatherBodies ==
  { JObj(fields @@ Opt("weather_data", wd)) :
      fields \in {NoProps, TopLevelFull}, wd \in WeatherVariants }

\* payloads with an error property: a message, or an empty string
ErrorBodies ==
  { JObj(TopLevelFull @@ ("error" :> JStr("Model not loaded"))),
    JObj(TopLevelFull @@ ("error" :> JStr(""))) }

PredictBodies(r) ==
  IF r = "ok"
    THEN VariantBodies \cup FieldBodies \cup WeatherBodies \cup ErrorBodies
           \cup {Null, Unparsable}
  ELSE IF r = "nonok"
    THEN {JObj([detail |-> JStr("Internal Server Error")]), Unparsable}
  ELSE {NoBody}

FetchOutcomes == {"ok", "nonok", "throw"}

(***************************************************************************)
(* AdvancedDengueAIClient.submitReport and mapBackendCategoryToFrontend.   *)
(* A backend category is a text: a string given by its characters, so that *)
(* toLowerCase and includes are computed on it.                            *)
(***************************************************************************)
JText(chars) == [t |-> "text", chars |-> chars]

UpperCase ==
  <<"A", "B", "C", "D", "E", "F", "G", "H", "I", "J", "K", "L", "M",
    "N", "O", "P", "Q", "R", "S", "T", "U", "V", "W", "X", "Y", "Z">>

LowerCase ==
  <<"a", "b", "c", "d", "e", "f", "g", "h", "i", "j", "k", "l", "m",
    "n", "o", "p", "q", "r", "s", "t", "u", "v", "w", "x", "y", "z">>

ToLowerChar(c) ==
  IF \E i \in 1..26 : UpperCase[i] = c
    THEN LowerCase[CHOOSE i \in 1..26 : UpperCase[i] = c]
    ELSE c

\* String.prototype.toLowerCase
ToLowerCase(chars) == [i \in 1..Len(chars) |-> ToLowerChar(chars[i])]

\* String.prototype.includes
Includes(hay, needle) ==
  \E i \in 1..(Len(hay) - Len(needle) + 1) :
    SubSeq(hay, i, i + Len(needle) - 1) = needle

\* the words the categories are searched for, and the default category
Word ==
  [breeding      |-> <<"b", "r", "e", "e", "d", "i", "n", "g">>,
   high_risk     |-> <<"h", "i", "g", "h", "_", "r", "i", "s", "k">>,
   critical      |-> <<"c", "r", "i", "t", "i", "c", "a", "l">>,
   hotspot       |-> <<"h", "o", "t", "s", "p", "o", "t">>,
   medium_risk   |-> <<"m", "e", "d", "i", "u", "m", "_", "r", "i", "s", "k">>,
   potential     |-> <<"p", "o", "t", "e", "n", "t", "i", "a", "l">>,
   low_risk      |-> <<"l", "o", "w", "_", "r", "i", "s", "k">>,
   not_breeding  |-> <<"n", "o", "t", "_", "b", "r", "e", "e", "d", "i", "n", "g">>,
   clean         |-> <<"c", "l", "e", "a", "n">>,
   safe          |-> <<"s", "a", "f", "e">>,
   breeding_site |-> <<"b", "r", "e", "e", "d", "i", "n", "g", "_", "s", "i", "t", "e">>]

\* a normalization that gives Invalid for what it does not recognize
mapBackendCategoryOrInvalid(backendCategory) ==
  With(ToLowerCase(backendCategory.chars), LAMBDA category :
      IF \/ Includes(category, Word.breeding) \/ Includes(category, Word.high_risk)
         \/ Includes(category, Word.critical) \/ Includes(category, Word.hotspot)
        THEN "Hotspot"
      ELSE IF Includes(category, Word.medium_risk) \/ Includes(category, Word.potential)
        THEN "Potential"
      ELSE IF \/ Includes(category, Word.low_risk) \/ Includes(category, Word.not_breeding)
              \/ Includes(category, Word.clean) \/ Includes(category, Word.safe)
        THEN "Not Hotspot"
      ELSE "Invalid")

mapBackendCategoryToFrontend(backendCategory) ==
  With(ToLowerCase(backendCategory.chars), LAMBDA category :
      IF \/ Includes(category, Word.breeding) \/ Includes(category, Word.high_risk)
         \/ Includes(category, Word.critical) \/ Includes(category, Word.hotspot)
        THEN "Hotspot"
      ELSE IF Includes(category, Word.medium_risk) \/ Includes(category, Word.potential)
        THEN "Potential"
      ELSE IF \/ Includes(category, Word.low_risk) \/ Includes(category, Word.not_breeding)
              \/ Includes(category, Word.clean) \/ Includes(category, Word.safe)
        THEN "Not Hotspot"
      ELSE "Hotspot")

JFalse == [t |-> "boolean", b |-> FALSE]

\* `report_${Date.now()}`
GeneratedReportId == JStr("report_<Date.now()>")

\* the object submitReport returns for the parsed body `result'
TransformReport(result) ==
  [status |-> Or(Get(result, "status"), JStr("success")),
   classification |->
     [category |->
        mapBackendCategoryToFrontend(
          Or(Get(result, "ai_classification"), JText(Word.breeding_site))),
      confidence  |-> Or(Get(result, "confidence"), FZero),
      description |-> Or(Get(result, "ai_classification"),
                         JStr("Analysis completed")),
      risk_level  |-> Or(Get(result, "risk_level"), JStr("Medium"))],
   ai_analysis |->
     [efficientnet_prediction |->
        Or(Get(result, "ai_classification"), JStr("Quantum-Enhanced CNN Analysis")),
      confidence_score |-> Or(Get(result, "confidence"), FZero),
      feature_analysis |->
        Or(Get(Get(result, "detailed_analysis"), "features"), JArr(<<>>)),
      recommendations  |-> Or(Get(result, "recommendations"), JArr(<<>>))],
   gamification |->
     [points_awarded |->
        Or(Get(result, "points_earned"),
           Or(Get(result, "points_awarded"), FFromInt(50))),
      xp_gained |->
        Or(Get(result, "xp_earned"), Or(Get(result, "xp_gained"), FFromInt(25))),
      achievement_unlocked |-> Get(result, "achievement_unlocked"),
      level_up |-> Or(Get(result, "level_up"), JFalse)],
   weather_data         |-> Get(result, "weather_data"),
   quantum_optimization |-> Get(result, "quantum_optimization"),
   timestamp |-> Or(Get(result, "timestamp"), IsoNow),
   image_id  |-> Or(Get(result, "report_id"), GeneratedReportId)]

\* new Error(message): the message as the sequence of its parts
JsError(parts) == [t |-> "Error", message |-> parts]

\* the message of what a step threw
MessageOf(c) == c.value.message

\* the completion of the try block of submitReport after the fetch ended with
\* r, the response having status text statusText and body b
AfterReport(r, statusText, b) ==
  IF r = "throw" THEN [kind |-> "throw", value |-> JsError(<<"Failed to fetch">>)]
  ELSE IF r = "nonok"
    THEN LET errorData == IF b.t = "unparsable"
                            THEN JObj([detail |-> JStr(statusText)])
                            ELSE b
         IN  IF errorData.t = "null"
               THEN [kind |-> "throw",
                     value |-> JsError(<<"Cannot read properties of null">>)]
             ELSE IF Truthy(Get(errorData, "detail"))
               THEN [kind |-> "throw",
                     value |-> JsError(<<Get(errorData, "detail").s>>)]
             ELSE [kind |-> "throw",
                   value |-> JsError(<<"Report submission failed: ", statusText>>)]
  ELSE IF b.t = "unparsable"
    THEN [kind |-> "throw", value |-> JsError(<<"Unexpected token in JSON">>)]
  ELSE IF b.t = "null"
    THEN [kind |-> "throw", value |-> JsError(<<"Cannot read properties of null">>)]
  ELSE Return(TransformReport(b))

\* catch (error) { throw new Error(`Report submission failed: ${error.message}`) }
RethrowReport(c) ==
  IF c.kind = "throw"
    THEN [kind |-> "throw",
          value |-> JsError(<<"Report submission failed: ">> \o MessageOf(c))]
    ELSE c

\* the fields appended to the multipart form
FormFields(latitude, longitude, reporterContact, imageFile) ==
  <<"location", "description">>
    \o (IF latitude.t # "undefined" THEN <<"latitude">> ELSE <<>>)
    \o (IF longitude.t # "undefined" THEN <<"longitude">> ELSE <<>>)
    \o (IF Truthy(reporterContact) THEN <<"reporter_contact">> ELSE <<>>)
    \o (IF Truthy(imageFile) THEN <<"image">> ELSE <<>>)

ImageFile == [t |-> "File", name |-> "site.jpg"]

ReportArguments ==
  { [latitude |-> la, longitude |-> lo, reporterContact |-> rc, imageFile |-> im] :
      la \in {Undefined, FZero},
      lo \in {Undefined, FFromInt(101)},
      rc \in {Undefined, JStr(""), JStr("012-3456789")},
      im \in {Undefined, ImageFile} }

\* the classifications of an acknowledgment: none, each word of the
\* vocabularies in lower case and in upper case, and words outside them
Classifications ==
  LET Upper(w) ==
        [i \in 1..Len(w) |->
           IF \E j \in 1..26 : LowerCase[j] = w[i]
             THEN UpperCase[CHOOSE j \in 1..26 : LowerCase[j] = w[i]]
             ELSE w[i]]
  IN  {Undefined, JText(<<"u", "n", "k", "n", "o", "w", "n", "_", "x", "y", "z">>)}
        \cup {JText(Word[w]) : w \in DOMAIN Word}
        \cup {JText(Upper(Word[w])) : w \in DOMAIN Word}

\* the properties of an acknowledgment besides its category and rewards
ReportExtras ==
  [status |-> JStr("submitted"), confidence |-> FDec(9, 1), risk_level |-> JStr("High"),
   recommendations |-> BackendRecommendations, timestamp |-> JStr("2025-09-14T08:00:00Z"),
   report_id |-> JStr("r-1")]

\* the reward properties of an acknowledgment: the points under either name
\* with the experience under both, and the experience under either name with
\* the points under both
RewardVariants ==
  { Opt("points_earned", pe) @@ Opt("points_awarded", pa)
      @@ [xp_earned |-> FFromInt(5), xp_gained |-> FFromInt(15)] :
      pe \in {Undefined, FZero, FFromInt(10)}, pa \in {Undefined, FFromInt(20)} }
  \cup
  { Opt("xp_earned", xe) @@ Opt("xp_gained", xg)
      @@ [points_earned |-> FFromInt(10), points_awarded |-> FFromInt(20)] :
      xe \in {Undefined, FZero, FFromInt(5)}, xg \in {Undefined, FFromInt(15)} }

\* acknowledgments that differ in the fields they carry: every
\* classification without rewards, and every variant of the rewards with
\* one classification
ReportBodies ==
  { JObj(Opt("ai_classification", cl) @@ extras) :
      cl \in Classifications, extras \in {NoProps, ReportExtras} }
  \cup
  { JObj([ai_classification |-> JText(Word.potential)] @@ extras @@ rewards) :
      extras \in {NoProps, ReportExtras}, rewards \in RewardVariants }

ReportReplyBodies(r) ==
  IF r = "ok" THEN ReportBodies \cup {Null, Unparsable}
  ELSE IF r = "nonok"
    THEN { JObj([detail |-> JStr("Image too large")]), JObj(NoProps), Null,
           Unparsable }
  ELSE {NoBody}

StatusTexts(r) == IF r = "nonok" THEN {"Not Found", ""} ELSE {""}

(***************************************************************************)
(* weatherService.ts: the risk scorer.                                     *)
(***************************************************************************)
\* a reason string, with the value interpolated into it when there is one
Reason(text, arg) == [text |-> text, arg |-> arg]

\* a temperature rule whose optimal range starts above 25
TemperatureRuleAbove25(temp) ==
  IF FGt(temp, FFromInt(25)) /\ FLe(temp, FFromInt(30))
    THEN [score |-> 3,
          reasons |-> <<Reason("Temperature in optimal Aedes breeding range (25-30 C)",
                               Undefined)>>]
  ELSE IF FGt(temp, FFromInt(30)) /\ FLe(temp, FFromInt(35))
    THEN [score |-> 2,
          reasons |-> <<Reason("High temperature accelerates mosquito development",
                               Undefined)>>]
  ELSE IF FGt(temp, FFromInt(35))
    THEN [score |-> 1,
          reasons |-> <<Reason("Extreme heat may reduce mosquito activity",
                               Undefined)>>]
  ELSE [score |-> 0, reasons |-> <<>>]

\* the score and the reason the temperature contributes
TemperatureRule(temp) ==
  IF FGe(temp, FFromInt(25)) /\ FLe(temp, FFromInt(30))
    THEN [score |-> 3,
          reasons |-> <<Reason("Temperature in optimal Aedes breeding range (25-30 C)",
                               Undefined)>>]
  ELSE IF FGt(temp, FFromInt(30)) /\ FLe(temp, FFromInt(35))
    THEN [score |-> 2,
          reasons |-> <<Reason("High temperature accelerates mosquito development",
                               Undefined)>>]
  ELSE IF FGt(temp, FFromInt(35))
    THEN [score |-> 1,
          reasons |-> <<Reason("Extreme heat may reduce mosquito activity",
                               Undefined)>>]
  ELSE [score |-> 0, reasons |-> <<>>]

\* a humidity rule that scores without giving its reason
HumidityRuleSilent(humidity) ==
  IF FGe(humidity, FFromInt(70)) THEN [score |-> 3, reasons |-> <<>>]
  ELSE IF FGe(humidity, FFromInt(60)) THEN [score |-> 2, reasons |-> <<>>]
  ELSE IF FLt(humidity, FFromInt(50)) THEN [score |-> -1, reasons |-> <<>>]
  ELSE [score |-> 0, reasons |-> <<>>]

\* the score and the reason the humidity contributes
HumidityRule(humidity) ==
  IF FGe(humidity, FFromInt(70))
    THEN [score |-> 3,
          reasons |-> <<Reason("High humidity (${humidity}%) supports mosquito survival",
                               humidity)>>]
  ELSE IF FGe(humidity, FFromInt(60))
    THEN [score |-> 2,
          reasons |-> <<Reason("Moderate humidity suitable for mosquito breeding",
                               Undefined)>>]
  ELSE IF FLt(humidity, FFromInt(50))
    THEN [score |-> -1,
          reasons |-> <<Reason("Low humidity inhibits mosquito survival",
                               Undefined)>>]
  ELSE [score |-> 0, reasons |-> <<>>]

\* the score and the reason the rainfall contributes
RainfallRule(rainfall) ==
  IF FGt(rainfall, FFromInt(100))
    THEN [score |-> 3,
          reasons |-> <<Reason("Heavy rainfall creates multiple breeding sites",
                               Undefined)>>]
  ELSE IF FGt(rainfall, FFromInt(50))
    THEN [score |-> 2,
          reasons |-> <<Reason("Moderate rainfall provides water accumulation",
                               Undefined)>>]
  ELSE [score |-> 0, reasons |-> <<>>]

\* the level of a score and the reason the level adds
RiskOfScore(riskScore) ==
  IF riskScore >= 7
    THEN [risk |-> "Critical",
          reasons |-> <<Reason("Conditions match July 2025 heatwave/September flood patterns",
                               Undefined)>>]
  ELSE IF riskScore >= 5
    THEN [risk |-> "High",
          reasons |-> <<Reason("Similar to peak monsoon conditions in Selangor",
                               Undefined)>>]
  ELSE IF riskScore >= 3 THEN [risk |-> "Medium", reasons |-> <<>>]
  ELSE [risk |-> "Low", reasons |-> <<>>]

\* a scorer that gives the humidity reason before the temperature reason
assessDengueRiskHumidityFirst(temp, humidity, rainfall) ==
  With(<<TemperatureRule(temp), HumidityRule(humidity), RainfallRule(rainfall)>>,
       LAMBDA rules :
  With(RiskOfScore(rules[1].score + rules[2].score + rules[3].score),
       LAMBDA level :
    [risk |-> level.risk,
     reasoning |-> rules[2].reasons \o rules[1].reasons \o rules[3].reasons
                     \o level.reasons]))

assessDengueRisk(temp, humidity, rainfall) ==
  With(<<TemperatureRule(temp), HumidityRule(humidity), RainfallRule(rainfall)>>,
       LAMBDA rules :
  With(RiskOfScore(rules[1].score + rules[2].score + rules[3].score),
       LAMBDA level :
    [risk |-> level.risk,
     reasoning |-> rules[1].reasons \o rules[2].reasons \o rules[3].reasons
                     \o level.reasons]))

calculateBreedingRisk(temperature, humidity, rainfall) ==
  assessDengueRisk(temperature, humidity, rainfall).risk

(***************************************************************************)
(* weatherService.ts: the records the gateway returns.  A template string  *)
(* `${v}unit` is the pair of the value and the unit; the time of day       *)
(* toLocaleTimeString prints is the clock in whole seconds within its day. *)
(***************************************************************************)
Template(v, unit) == [value |-> v, unit |-> unit]

\* new Date().toLocaleTimeString()
LocaleTimeString(ms) ==
  With((ms \div 1000) % (24 * 60 * 60), LAMBDA sec :
    [h |-> sec \div 3600, m |-> (sec \div 60) % 60, s |-> sec % 60,
     suffix |-> ""])

\* the record built from a WeatherStack payload (lines 289-310)
FromWeatherStack(weatherStackData, ms) ==
  IF \/ ~Present(weatherStackData, "current")
     \/ ~Present(weatherStackData, "location")
    THEN Throw("TypeError: Cannot read properties of undefined")
  ELSE
    With(Or(Get(weatherStackData.current, "precip"), FZero), LAMBDA rainfall :
      Return(
        [temperature |-> Template(Get(weatherStackData.current, "temperature"), "C"),
         humidity    |-> Template(Get(weatherStackData.current, "humidity"), "%"),
         rainfall    |-> Template(rainfall, "mm"),
         riskFactor  |->
           calculateBreedingRisk(Get(weatherStackData.current, "temperature"),
                                 Get(weatherStackData.current, "humidity"),
                                 rainfall),
         location    |-> <<Get(weatherStackData.location, "name"), ", ",
                           Get(weatherStackData.location, "region")>>,
         lastUpdated |-> LocaleTimeString(ms)]))

\* Math.round(x) as a number: floor(x + 0.5), the sum exact for the
\* magnitudes of this model
MathRound(x) ==
  With(x, LAMBDA v :
    IF IsNum(v) THEN FFromInt(FFloor(FAdd(v, FScale(FFromInt(1), -1)))) ELSE NaN)

\* falling through to the statement after an if
FallThrough == [kind |-> "fallthrough"]

\* the record built from a forecast payload (lines 313-335), or the fall
\* through to the fallback when the payload is null or holds no entry
FromMalaysiaForecast(malaysiaData, ms) ==
  IF ~Truthy(malaysiaData) THEN FallThrough
  ELSE IF Get(malaysiaData, "data").t # "array"
    THEN Throw("TypeError: Cannot read properties of undefined")
  ELSE IF Len(malaysiaData.data.items) = 0 THEN FallThrough
  ELSE
    With(malaysiaData.data.items[1], LAMBDA latestData :
    With(FDivInt(FAdd(Get(latestData, "temperature_max"),
                      Get(latestData, "temperature_min")), 2), LAMBDA avgTemp :
      Return(
        [temperature |-> Template(MathRound(avgTemp), "C"),
         humidity    |-> Template(Get(latestData, "humidity"), "%"),
         rainfall    |-> Template(Get(latestData, "rainfall"), "mm"),
         riskFactor  |->
           calculateBreedingRisk(avgTemp, Get(latestData, "humidity"),
                                 Get(latestData, "rainfall")),
         location    |-> <<Get(latestData, "location")>>,
         lastUpdated |-> LocaleTimeString(ms)])))

\* the three values Math.random() returns in one call of
\* getFallbackWeatherData: 3/8, 0, 0 and three times 63/64
RandomTriples ==
  { <<FScale(FFromInt(3), -3), FZero, FZero>>,
    <<FScale(FFromInt(63), -6), FScale(FFromInt(63), -6),
      FScale(FFromInt(63), -6)>> }

\* estimated readings with temperatures of up to 36 degrees
EstimatedReadingsWide(rnd) ==
  With(<<FAdd(FFromInt(28), FMulInt(rnd[1], 8)),
         FAdd(FFromInt(65), FMulInt(rnd[2], 20)),
         FMulInt(rnd[3], 20)>>, LAMBDA v :
    [temperature |-> Template(MathRound(v[1]), "C"),
     humidity    |-> Template(MathRound(v[2]), "%"),
     rainfall    |-> Template(MathRound(v[3]), "mm"),
     riskFactor  |-> calculateBreedingRisk(v[1], v[2], v[3]),
     location    |-> <<JStr("Malaysia")>>])

\* the estimated readings and what is derived from them (lines 350-365)
EstimatedReadings(rnd) ==
  With(<<FAdd(FFromInt(28), FMulInt(rnd[1], 6)),
         FAdd(FFromInt(65), FMulInt(rnd[2], 20)),
         FMulInt(rnd[3], 20)>>, LAMBDA v :
    [temperature |-> Template(MathRound(v[1]), "C"),
     humidity    |-> Template(MathRound(v[2]), "%"),
     rainfall    |-> Template(MathRound(v[3]), "mm"),
     riskFactor  |-> calculateBreedingRisk(v[1], v[2], v[3]),
     location    |-> <<JStr("Malaysia")>>])

\* the same, worked out once for each of the draws
EstimatedReadingsOf == [rnd \in RandomTriples |-> EstimatedReadings(rnd)]

\* the estimated record, rnd the three values Math.random() returns
getFallbackWeatherData(rnd, ms) ==
  EstimatedReadingsOf[rnd] @@
    [lastUpdated |-> [LocaleTimeString(ms) EXCEPT !.suffix = " (Estimated)"]]

(***************************************************************************)
(* weatherService.ts: the cache of the gateway.                            *)
(***************************************************************************)
\* a cache that forgets an entry after one minute
FreshForOneMinute(c, key, ms) ==
  Truthy(c[key]) /\ ms - c[key].timestamp < 60 * 1000

\* a cache that still serves an entry at the age of ten minutes
FreshAtTimeout(c, key, ms) ==
  Truthy(c[key]) /\ ms - c[key].timestamp <= 10 * 60 * 1000

\* private cacheTimeout = 10 * 60 * 1000
cacheTimeout == 10 * 60 * 1000

Locations == {"Kuala Lumpur", "Shah Alam"}

\* `weatherstack_${location}`
WeatherStackKey(location) == <<"weatherstack_", location>>

MalaysiaKey == <<"malaysia_forecast">>

CacheKeys == {WeatherStackKey(l) : l \in Locations} \cup {MalaysiaKey}

\* this.cache[cacheKey] = { data, timestamp: Date.now() }
CacheEntry(payload, ms) == [t |-> "object", data |-> payload, timestamp |-> ms]

\* this.cache[cacheKey] && Date.now() - this.cache[cacheKey].timestamp < this.cacheTimeout
Fresh(c, key, ms) ==
  Truthy(c[key]) /\ ms - c[key].timestamp < cacheTimeout

(***************************************************************************)
(* The client: one call of predictOutbreak or submitReport at a time.  The *)
(* client object holds no state besides its base URL, so the variables     *)
(* below are those of the call in progress or of the call that ended last. *)
(***************************************************************************)
VARIABLES
  pc,          \* where the call is: "idle", awaiting a fetch, or done
  data,        \* the request predictOutbreak was called with
  fetches,     \* the requests the call has issued, in order
  probe,       \* how the health fetch ended ("none" before it did)
  reply,       \* how the prediction or report fetch ended
  statusText,  \* response.statusText of the report fetch
  body,        \* the body read from that response
  prediction,  \* the promise predictOutbreak returned
  form,        \* the fields of the multipart form submitReport built
  report       \* the promise submitReport returned

clientVars ==
  <<pc, data, fetches, probe, reply, statusText, body, prediction, form, report>>

(***************************************************************************)
(* The weather gateway, the singleton WeatherService: its cache, the clock *)
(* it reads, and its calls of getWeatherWithRisk, one at a time.           *)
(***************************************************************************)
VARIABLES
  cache,   \* this.cache: the entry of each key, undefined when there is none
  now,     \* Date.now(), in milliseconds since the gateway was constructed
  call,    \* the call of getWeatherWithRisk in progress or ended last: its
           \* location, the time it started, the requests it issued and how
           \* each ended, how each
           \* provider answered it (from a fresh entry, from a request whose
           \* body was stored, or not at all) with the timestamp of the entry
           \* it read, the provider that served it and the record it returned
  prev,    \* the call that ended before it
  calls,   \* the number of calls started
  flights  \* calls of getWeatherStackData that overlap: of each, where it
           \* is, its location, when it started and ended, whether it
           \* issued a request, how it got its data and what it returned

gatewayVars == <<cache, now, call, prev, calls, flights>>

(***************************************************************************)
(* The scorer, assessDengueRisk, on its own: a call of it with numbers     *)
(* for its three parameters.                                               *)
(***************************************************************************)
VARIABLES
  assessed \* the call of assessDengueRisk: its arguments, and what it
           \* returned once it has

scorerVars == <<assessed>>

(***************************************************************************)
(* The pages that call the client: the state each keeps with useState and  *)
(* the toasts it shows.                                                    *)
(***************************************************************************)
VARIABLES
  reportPage \* the report page: its uploadedFile, location, the contact of
             \* its form, isAnalyzing, aiResult, isSubmitted, whether its
             \* handleSubmit is awaiting submitReport, and the toasts the
             \* call of handleSubmit that started last has shown
VARIABLES
  predictPage \* the prediction page: its formData, isLoading and
              \* isLoadingWeather, the calls of handleInputChange so far,
              \* the calls of fetchWeatherData in the order they were made,
              \* where its handleSubmit is, with the formData and the
              \* locationData it holds and the promise predictOutbreak
              \* returned, the title of the toast shown last, and where it
              \* navigated to

pageVars == <<reportPage, predictPage>>

vars == <<clientVars, gatewayVars, scorerVars, pageVars>>

NoRequest == [t |-> "none"]

ClientInit ==
  /\ pc = "idle"
  /\ data = NoRequest
  /\ fetches = <<>>
  /\ probe = "none"
  /\ reply = "none"
  /\ statusText = ""
  /\ body = NoBody
  /\ prediction = Pending
  /\ form = <<>>
  /\ report = Pending

\* no call is in progress
Quiescent == pc \in {"idle", "predictDone", "reportDone"}

\* predictOutbreak(req) up to its first await: the health fetch is issued
PredictOutbreakCall(req) ==
  /\ UNCHANGED <<gatewayVars, scorerVars, pageVars>>
  /\ Quiescent
  /\ pc' = "awaitHealth"
  /\ data' = req
  /\ fetches' = <<"GET /health">>
  /\ probe' = "none"
  /\ reply' = "none"
  /\ statusText' = ""
  /\ body' = NoBody
  /\ prediction' = Pending
  /\ form' = <<>>
  /\ report' = Pending

\* the health fetch ends with h; when it is ok the prediction is requested
HealthReplies(h) ==
  /\ UNCHANGED <<gatewayVars, scorerVars, pageVars>>
  /\ pc = "awaitHealth"
  /\ probe' = h
  /\ IF ProbeOk(h)
       THEN /\ pc' = "awaitPredict"
            /\ fetches' = Append(fetches, "POST /predict/live-weather")
            /\ prediction' = prediction
       ELSE /\ pc' = "predictDone"
            /\ fetches' = fetches
            /\ prediction' = Settle(CatchAll(data, AfterHealth(data, h)))
  /\ UNCHANGED <<data, reply, statusText, body, form, report>>

\* the prediction fetch ends with r and body b, and predictOutbreak settles
PredictReplies(r, b) ==
  /\ UNCHANGED <<gatewayVars, scorerVars, pageVars>>
  /\ pc = "awaitPredict"
  /\ pc' = "predictDone"
  /\ reply' = r
  /\ body' = b
  /\ prediction' = Settle(CatchAll(data, AfterPredict(data, r, b)))
  /\ UNCHANGED <<data, fetches, probe, statusText, form, report>>

\* submitReport(...) up to its await: the form is built and posted; what the
\* caller does in the same step is the caller's
SubmitReportCall(args) ==
  /\ UNCHANGED <<gatewayVars, scorerVars>>
  /\ Quiescent
  /\ pc' = "awaitReport"
  /\ form' = FormFields(args.latitude, args.longitude, args.reporterContact,
                        args.imageFile)
  /\ fetches' = <<"POST /api/v1/report">>
  /\ data' = NoRequest
  /\ probe' = "none"
  /\ reply' = "none"
  /\ statusText' = ""
  /\ body' = NoBody
  /\ prediction' = Pending
  /\ report' = Pending

\* the report fetch ends with r, status text st and body b, and submitReport
\* settles
ReportReplies(r, st, b) ==
  /\ UNCHANGED <<gatewayVars, scorerVars, pageVars>>
  /\ pc = "awaitReport"
  /\ pc' = "reportDone"
  /\ reply' = r
  /\ statusText' = st
  /\ body' = b
  /\ report' = Settle(RethrowReport(AfterReport(r, st, b)))
  /\ UNCHANGED <<data, fetches, probe, form, prediction>>

(***************************************************************************)
(* The provider payloads, the random draws and the bounds of the gateway   *)
(* model.                                                                  *)
(***************************************************************************)
\* the number of calls of getWeatherWithRisk in a behaviour
MaxCalls == 2

\* the number of calls of getWeatherStackData that overlap
MaxFlights == 2

Flights == 1..MaxFlights

\* the minutes that pass in one step of the clock, and the number of steps
TickMinutes == 5

MaxTicks == 2

WeatherStackPayload(temperature, humidity, precip) ==
  JObj([current |-> JObj(("temperature" :> temperature) @@ ("humidity" :> humidity)
                           @@ Opt("precip", precip)),
        location |-> JObj([name |-> JStr("Kuala Lumpur"),
                           region |-> JStr("Kuala Lumpur"),
                           country |-> JStr("Malaysia")])])

\* a 200 answer of WeatherStack that reports an error
WeatherStackError ==
  JObj([success |-> JFalse,
        error |-> JObj([code |-> FFromInt(104),
                        type |-> JStr("usage_limit_reached")])])

WeatherStackBodies(r) ==
  IF r = "ok"
    THEN { WeatherStackPayload(FFromInt(31), FFromInt(75), FFromInt(3)),
           WeatherStackPayload(FFromInt(27), FFromInt(82), Undefined),
           WeatherStackError, Null, Unparsable }
    ELSE {NoBody}

MalaysiaEntry(location, tmax, tmin, humidity, rainfall) ==
  JObj([date |-> JStr("2025-09-14"), location |-> JStr(location),
        temperature_max |-> tmax, temperature_min |-> tmin,
        humidity |-> humidity, rainfall |-> rainfall])

MalaysiaBodies(r) ==
  IF r = "ok"
    THEN { JObj([data |-> JArr(<<MalaysiaEntry("Selangor", FFromInt(25), FFromInt(24),
                                               FFromInt(80), FFromInt(60)),
                                 MalaysiaEntry("Johor", FFromInt(30), FFromInt(25),
                                               FFromInt(70), FFromInt(0))>>)]),
           JObj([data |-> JArr(<<>>)]),
           JObj(NoProps), Null, Unparsable }
    ELSE {NoBody}

(***************************************************************************)
(* getWeatherWithRisk as steps between its await points.  A call that      *)
(* finds a fresh entry goes on without a request; a call that does not     *)
(* issues the request and waits for the reply.                             *)
(***************************************************************************)
NoCall == [pc |-> "idle"]

GatewayInit ==
  /\ cache = [k \in CacheKeys |-> Undefined]
  /\ now = 0
  /\ call = NoCall
  /\ prev = NoCall
  /\ calls = 0
  /\ flights = [i \in Flights |-> NoCall]

\* what the call notes of the end of a request: an OK response, or none
\* (a response that is not OK, or no response at all)
Response(r) == IF r = "ok" THEN "ok" ELSE "failed"

\* a call without the catch: what its try block throws rejects it
FinishUncaught(cl, completion, via, rnd, ms) ==
  With(completion, LAMBDA c :
    IF c.kind = "return"
      THEN [cl EXCEPT !.pc = "done", !.served = via, !.weather = c.value]
    ELSE IF c.kind = "throw"
      THEN [cl EXCEPT !.pc = "done", !.served = "rejected"]
      ELSE [cl EXCEPT !.pc = "done", !.served = "fallback",
                      !.weather = getFallbackWeatherData(rnd, ms)])

\* the call ends: it returns what its try block returned, and the estimated
\* record when the block threw or fell through to the final fallback
Finish(cl, completion, via, rnd, ms) ==
  With(completion, LAMBDA c :
    IF c.kind = "return"
      THEN [cl EXCEPT !.pc = "done", !.served = via, !.weather = c.value]
      ELSE [cl EXCEPT !.pc = "done", !.served = "fallback",
                      !.weather = getFallbackWeatherData(rnd, ms)])

\* the call goes on with what getMalaysiaWeatherForecast returned
AfterMalaysiaForecast(cl, malaysiaData, rnd, ms) ==
  Finish(cl, FromMalaysiaForecast(malaysiaData, ms), "secondary", rnd, ms)

\* the call goes on with what getWeatherStackData returned: with c the cache,
\* it builds the record, or turns to the forecast, cached or to be requested
AfterWeatherStack(cl, c, weatherStackData, rnd, ms) ==
  IF Truthy(weatherStackData)
    THEN Finish(cl, FromWeatherStack(weatherStackData, ms), "primary", rnd, ms)
  ELSE IF Fresh(c, MalaysiaKey, ms)
    THEN AfterMalaysiaForecast([cl EXCEPT !.secondary = "hit",
                                          !.secondaryAt = c[MalaysiaKey].timestamp],
                               c[MalaysiaKey].data, rnd, ms)
  ELSE [cl EXCEPT !.pc = "awaitSecondary", !.secondary = "requested",
                  !.requests = Append(@, "GET /weather/forecast")]

\* getWeatherWithRisk(location) up to its first pending fetch, or to its end
\* when the cache answers
GetWeatherWithRisk(location, rnd) ==
  /\ call.pc \in {"idle", "done"}
  /\ calls < MaxCalls
  /\ calls' = calls + 1
  /\ prev' = call
  /\ LET cl == [pc |-> "awaitPrimary", location |-> location, startedAt |-> now,
                requests |-> <<>>, responses |-> <<>>,
                primary |-> "requested", primaryAt |-> -1,
                secondary |-> "none", secondaryAt |-> -1,
                served |-> "none", weather |-> Undefined]
     IN  call' = IF Fresh(cache, WeatherStackKey(location), now)
                   THEN AfterWeatherStack(
                          [cl EXCEPT !.primary = "hit",
                                     !.primaryAt =
                                        cache[WeatherStackKey(location)].timestamp],
                          cache, cache[WeatherStackKey(location)].data, rnd, now)
                   ELSE [cl EXCEPT !.requests = <<"GET /current">>]
  /\ UNCHANGED <<cache, now, flights>>
  /\ UNCHANGED <<clientVars, scorerVars, pageVars>>

\* the fetch of getWeatherStackData ends with r and body b: the body of an OK
\* response that parses is cached and returned, anything else returns null
WeatherStackReplies(r, b, rnd) ==
  /\ IF r = "ok" /\ b # Unparsable
       THEN /\ cache' = [cache EXCEPT ![WeatherStackKey(call.location)] =
                                        CacheEntry(b, now)]
            /\ call' = AfterWeatherStack([call EXCEPT !.primary = "stored",
                                                      !.primaryAt = now,
                                                      !.responses = Append(@, Response(r))],
                                         cache', b, rnd, now)
       ELSE /\ cache' = cache
            /\ call' = AfterWeatherStack([call EXCEPT !.primary = "failed",
                                                      !.responses = Append(@, Response(r))],
                                         cache, Null, rnd, now)
  /\ UNCHANGED <<now, prev, calls, flights>>
  /\ UNCHANGED <<clientVars, scorerVars, pageVars>>

\* the fetch of getMalaysiaWeatherForecast ends with r and body b
MalaysiaForecastReplies(r, b, rnd) ==
  /\ IF r = "ok" /\ b # Unparsable
       THEN /\ cache' = [cache EXCEPT ![MalaysiaKey] = CacheEntry(b, now)]
            /\ call' = AfterMalaysiaForecast([call EXCEPT !.secondary = "stored",
                                                          !.secondaryAt = now,
                                                          !.responses = Append(@, Response(r))],
                                             b, rnd, now)
       ELSE /\ cache' = cache
            /\ call' = AfterMalaysiaForecast([call EXCEPT !.secondary = "failed",
                                                          !.responses = Append(@, Response(r))],
                                             Null, rnd, now)
  /\ UNCHANGED <<now, prev, calls, flights>>
  /\ UNCHANGED <<clientVars, scorerVars, pageVars>>

\* a pending request of the call ends, in any of the ways it can
PrimaryReplies ==
  /\ call.pc = "awaitPrimary"
  /\ \E r \in FetchOutcomes : \E b \in WeatherStackBodies(r) :
        \E rnd \in RandomTriples : WeatherStackReplies(r, b, rnd)

SecondaryReplies ==
  /\ call.pc = "awaitSecondary"
  /\ \E r \in FetchOutcomes : \E b \in MalaysiaBodies(r) :
        \E rnd \in RandomTriples : MalaysiaForecastReplies(r, b, rnd)

\* time passes
Tick ==
  /\ now + TickMinutes * 60 * 1000 <= MaxTicks * TickMinutes * 60 * 1000
  /\ now' = now + TickMinutes * 60 * 1000
  /\ UNCHANGED <<cache, call, prev, calls, flights>>
  /\ UNCHANGED <<clientVars, scorerVars, pageVars>>

\* a cache that keeps the entry a key already has
StoreFirstOnly(c, key, payload, ms) ==
  IF c[key] # Undefined THEN c ELSE [c EXCEPT ![key] = CacheEntry(payload, ms)]

\* this.cache[cacheKey] = { data, timestamp: Date.now() }
Store(c, key, payload, ms) == [c EXCEPT ![key] = CacheEntry(payload, ms)]

\* getWeatherStackData(location) is called while other calls of it may be
\* awaiting their fetch: it returns the data of a fresh entry, or issues
\* its own request and awaits it
GetWeatherStackData(i, location) ==
  /\ flights[i].pc = "idle"
  /\ flights' =
       [flights EXCEPT ![i] =
          IF Fresh(cache, WeatherStackKey(location), now)
            THEN [pc |-> "returned", location |-> location, startedAt |-> now,
                  endedAt |-> now, requested |-> FALSE, how |-> "hit",
                  result |-> cache[WeatherStackKey(location)].data]
            ELSE [pc |-> "pending", location |-> location, startedAt |-> now,
                  endedAt |-> -1, requested |-> TRUE, how |-> "none",
                  result |-> Undefined]]
  /\ UNCHANGED <<cache, now, call, prev, calls>>
  /\ UNCHANGED <<clientVars, scorerVars, pageVars>>

\* the fetch of the call i ends with r and body b, and the call returns
WeatherStackFetchEnds(i, r, b) ==
  /\ flights[i].pc = "pending"
  /\ IF r = "ok" /\ b # Unparsable
       THEN /\ cache' = Store(cache, WeatherStackKey(flights[i].location), b, now)
            /\ flights' = [flights EXCEPT ![i].pc = "returned", ![i].endedAt = now,
                                          ![i].how = "stored", ![i].result = b]
       ELSE /\ cache' = cache
            /\ flights' = [flights EXCEPT ![i].pc = "returned", ![i].endedAt = now,
                                          ![i].how = "failed", ![i].result = Null]
  /\ UNCHANGED <<now, call, prev, calls>>
  /\ UNCHANGED <<clientVars, scorerVars, pageVars>>

\* x quarters as a number
Quarters(x) == FScale(FFromInt(x), -2)

\* the arguments of assessDengueRisk: numbers on both sides of every
\* threshold of its rules and at them, negative ones, and NaN
ScorerArguments ==
  [temp     : {Quarters(q) : q \in {-20, 0, 99, 100, 110, 120, 121, 140, 141, 160}}
                \cup {NaN},
   humidity : {Quarters(q) : q \in {-40, 199, 200, 239, 240, 279, 280, 400}}
                \cup {NaN},
   rainfall : {Quarters(q) : q \in {-4, 0, 200, 201, 400, 401, 1200}}
                \cup {NaN}]

NoAssessment == [pc |-> "idle"]

\* assessDengueRisk(temp, humidity, rainfall) is called
ScorerCalled ==
  assessed \in {[pc |-> "called", args |-> a, result |-> Undefined] :
                  a \in ScorerArguments}

\* the call runs to its return statement
AssessDengueRisk ==
  /\ assessed.pc = "called"
  /\ assessed' =
       [assessed EXCEPT !.pc = "returned",
                        !.result = assessDengueRisk(assessed.args.temp,
                                                    assessed.args.humidity,
                                                    assessed.args.rainfall)]
  /\ UNCHANGED <<clientVars, gatewayVars, pageVars>>

(***************************************************************************)
(* The report page (Report): handleSubmit.                                 *)
(***************************************************************************)
\* the page with a file, a location and a contact entered and an analysis
\* result displayed, or without them
ReportPage(file, loc, contact, result) ==
  [step |-> "idle", uploadedFile |-> file, location |-> loc, contact |-> contact,
   isAnalyzing |-> FALSE, aiResult |-> result, isSubmitted |-> FALSE,
   toasts |-> <<>>]

\* toast({ title, description }): the description as the sequence of its parts
Toast(title, description) == [title |-> title, description |-> description]

\* location.match(/(-?\d+\.?\d*),\s*(-?\d+\.?\d*)/) and parseFloat of its
\* groups, of the locations entered
ReportLocations == {"", "Shah Alam", "3.5, 101.5"}

Coordinates(loc) ==
  IF loc = "3.5, 101.5"
    THEN [latitude  |-> FScale(FFromInt(7), -1),
          longitude |-> FScale(FFromInt(203), -1)]
    ELSE [latitude |-> Undefined, longitude |-> Undefined]

\* handleSubmit up to its await: the guard, and the call of submitReport
ReportHandleSubmit ==
  /\ UNCHANGED predictPage
  /\ reportPage.step = "idle"
  /\ ~reportPage.isSubmitted
  /\ IF ~Truthy(reportPage.uploadedFile) \/ reportPage.location = ""
       THEN /\ reportPage' =
                 [reportPage EXCEPT !.toasts =
                    <<Toast("Missing Information",
                            <<"Please upload an image and provide location information.">>)>>]
            /\ UNCHANGED <<clientVars, gatewayVars, scorerVars>>
       ELSE /\ reportPage' = [reportPage EXCEPT !.step = "awaiting",
                                                !.isAnalyzing = TRUE,
                                                !.toasts = <<>>]
            /\ SubmitReportCall(
                 Coordinates(reportPage.location) @@
                 [reporterContact |-> reportPage.contact,
                  imageFile |-> reportPage.uploadedFile])

\* the statements of the try block after the await, for the result submitReport
\* resolved with (its gamification is an object), and the finally block
SubmissionSucceeded(page, result) ==
  [page EXCEPT
     !.step = "idle",
     !.aiResult = result,
     !.toasts =
        <<Toast("Report Submitted Successfully!",
                <<"Thank you! Analysis: ", result.classification.category>>)>>
        \o (IF \/ FGt(result.gamification.points_awarded, FZero)
               \/ FGt(result.gamification.xp_gained, FZero)
              THEN <<Toast("Rewards Earned!",
                           <<"+", result.gamification.points_awarded, " points, +",
                             result.gamification.xp_gained, " XP">>)>>
              ELSE <<>>),
     !.isSubmitted = TRUE,
     !.isAnalyzing = FALSE]

\* a catch block that takes the report as submitted
SubmissionFailedSubmitted(page, error) ==
  [page EXCEPT
     !.step = "idle",
     !.toasts = <<Toast("Submission Failed",
                        <<"Could not submit report: ">> \o error.message
                          \o <<". Please try again.">>)>>,
     !.isSubmitted = TRUE,
     !.isAnalyzing = FALSE]

\* the catch block, for the error submitReport rejected with, and the finally
\* block
SubmissionFailed(page, error) ==
  [page EXCEPT
     !.step = "idle",
     !.toasts = <<Toast("Submission Failed",
                        <<"Could not submit report: ">> \o error.message
                          \o <<". Please try again.">>)>>,
     !.isAnalyzing = FALSE]

\* handleSubmit resumes when the promise of submitReport has settled
ReportHandleSubmitResumes ==
  /\ reportPage.step = "awaiting"
  /\ pc = "reportDone"
  /\ reportPage' = IF report.kind = "resolved"
                     THEN SubmissionSucceeded(reportPage, report.value)
                     ELSE SubmissionFailed(reportPage, report.value)
  /\ UNCHANGED <<clientVars, gatewayVars, scorerVars, predictPage>>

(***************************************************************************)
(* The prediction page (Predict): handleInputChange, fetchWeatherData over *)
(* WeatherService.getWeatherData, and handleSubmit over predictOutbreak of *)
(* the enhanced client.                                                    *)
(***************************************************************************)
\* the number of calls of handleInputChange in a behaviour
MaxChanges == 4

\* the numbers the model shows in the form, with their decimal strings
Decimals ==
  { <<"31.5", FScale(FFromInt(63), -1)>>, <<"80", FFromInt(80)>>,
    <<"12", FFromInt(12)>>, <<"7", FFromInt(7)>>,
    <<"28", FFromInt(28)>>, <<"60", FFromInt(60)>>, <<"0", FZero>>,
    <<"3", FFromInt(3)>>,
    <<"30", FFromInt(30)>>, <<"75", FFromInt(75)>>, <<"15", FFromInt(15)>>,
    <<"5", FFromInt(5)>> }

\* x.toString() of a number
NumberToString(x) == (CHOOSE d \in Decimals : d[2] = x)[1]

\* parseFloat(s): NaN for the empty string
ParseFloat(s) ==
  IF \E d \in Decimals : d[1] = s THEN (CHOOSE d \in Decimals : d[1] = s)[2] ELSE NaN

PredictPageAsMounted ==
  [formData |-> [location |-> "", state |-> "", temperature |-> "", humidity |-> "",
                 rainfall |-> "", windSpeed |-> ""],
   isLoading |-> FALSE, isLoadingWeather |-> FALSE,
   changes |-> 0, weatherFetches |-> <<>>,
   step |-> "idle", held |-> Null, promise |-> Pending,
   toast |-> "", navigated |-> Null]

\* the bodies of the responses to /api/v1/weather/current/...
CurrentWeatherBodies(r) ==
  IF r = "throw" THEN {NoBody}
  ELSE IF r = "nonok" THEN {JObj([detail |-> JStr("Not Found")])}
  ELSE { JObj([temperature |-> FScale(FFromInt(63), -1), humidity |-> FFromInt(80),
               rainfall |-> FFromInt(12), wind_speed |-> FFromInt(7)]),
         JObj([temperature |-> FFromInt(28), humidity |-> FFromInt(60),
               rainfall |-> FZero, wind_speed |-> FFromInt(3)]),
         JObj(NoProps), Null, Unparsable }

\* what getWeatherData resolves with when its fetch ends with r and body b:
\* the fields of the body, or the defaults of its catch block
GetWeatherData(r, b) ==
  IF r = "ok" /\ b.t = "object"
    THEN [temperature |-> Get(b, "temperature"), humidity |-> Get(b, "humidity"),
          rainfall |-> Get(b, "rainfall"), windSpeed |-> Get(b, "wind_speed")]
    ELSE [temperature |-> FFromInt(30), humidity |-> FFromInt(75),
          rainfall |-> FFromInt(15), windSpeed |-> FFromInt(5)]

\* fetchWeatherData() up to its await, called in a render whose formData is fd
FetchWeatherData(page, fd) ==
  [page EXCEPT
     !.isLoadingWeather = TRUE,
     !.toast = "Fetching Weather Data",
     !.weatherFetches =
        Append(@, [query |-> <<fd.location, ", ", fd.state>>, pending |-> TRUE,
                   data |-> Null])]

\* handleInputChange(field, value): formData is that of the render the
\* handler was created in, the form before the change
HandleInputChange(page, field, value) ==
  With([page EXCEPT !.formData[field] = value, !.changes = @ + 1], LAMBDA next :
    IF field \in {"location", "state"}
         /\ page.formData.location # "" /\ page.formData.state # ""
      THEN FetchWeatherData(next, page.formData)
      ELSE next)

\* the visitor changes the location or the state
InputChanges(field, value) ==
  /\ predictPage.step # "navigated"
  /\ predictPage.changes < MaxChanges
  /\ predictPage.formData[field] # value
  /\ predictPage' = HandleInputChange(predictPage, field, value)
  /\ UNCHANGED <<clientVars, gatewayVars, scorerVars, reportPage>>

\* the fetch of the i-th call of fetchWeatherData ends with r and body b, and
\* the call runs to its end
WeatherFetchEnds(i, r, b) ==
  /\ predictPage.step # "navigated"
  /\ i \in DOMAIN predictPage.weatherFetches
  /\ predictPage.weatherFetches[i].pending
  /\ predictPage' =
       With(GetWeatherData(r, b), LAMBDA weatherData :
         IF \E f \in DOMAIN weatherData : weatherData[f].t = "undefined"
           THEN [predictPage EXCEPT
                   !.weatherFetches[i] = [@ EXCEPT !.pending = FALSE,
                                                   !.data = weatherData],
                   !.toast = "Weather Data Error",
                   !.isLoadingWeather = FALSE]
           ELSE [predictPage EXCEPT
                   !.weatherFetches[i] = [@ EXCEPT !.pending = FALSE,
                                                   !.data = weatherData],
                   !.formData.temperature = NumberToString(weatherData.temperature),
                   !.formData.humidity = NumberToString(weatherData.humidity),
                   !.formData.rainfall = NumberToString(weatherData.rainfall),
                   !.formData.windSpeed = NumberToString(weatherData.windSpeed),
                   !.toast = "Weather Data Updated",
                   !.isLoadingWeather = FALSE])
  /\ UNCHANGED <<clientVars, gatewayVars, scorerVars, reportPage>>

\* the bodies of the responses to POST /predict
EnhancedPredictBodies(r) ==
  IF r = "throw" THEN {NoBody}
  ELSE IF r = "nonok"
    THEN {JObj([detail |-> JStr("Model not loaded")]), JObj(NoProps), Null, Unparsable}
  ELSE { JObj([risk_level |-> JStr("High"), confidence |-> FDec(9, 1),
               predicted_cases |-> FFromInt(120),
               weather_factors |-> JObj([temperature_impact |-> FDec(8, 1)]),
               recommendations |-> JArr(<<JStr("Use repellent")>>)]),
         JObj([confidence |-> FZero, predicted_cases |-> FZero]),
         JObj(NoProps), JStr("ok"), Null, Unparsable }

\* the completion of the try block of the enhanced predictOutbreak after the
\* prediction fetch ended with r, status text st and body b
AfterEnhancedPredict(r, st, b) ==
  IF r = "throw" THEN [kind |-> "throw", value |-> JsError(<<"Failed to fetch">>)]
  ELSE IF r = "nonok"
    THEN LET errorData ==
               IF b.t = "unparsable"
                 THEN JObj([detail |-> Or(JStr(st),
                                          JStr("Unknown error occurred"))])
                 ELSE b
         IN  IF errorData.t = "null"
               THEN [kind |-> "throw",
                     value |-> JsError(<<"Cannot read properties of null">>)]
             ELSE [kind |-> "throw",
                   value |-> JsError(<<Or(Get(errorData, "detail"),
                                          JStr("Failed to get prediction from AI model")).s>>)]
  ELSE IF b.t = "unparsable"
    THEN [kind |-> "throw", value |-> JsError(<<"Unexpected token in JSON">>)]
  ELSE Return(b)

\* catch (error) { throw new Error(error.message) } of the enhanced
\* predictOutbreak, and the promise it returns
EnhancedSettle(c) ==
  Settle(IF c.kind = "throw"
           THEN [kind |-> "throw", value |-> JsError(MessageOf(c))]
           ELSE c)

\* the factors both results objects carry, of the form fd
Factors(fd) ==
  [temperature |-> Or(ParseFloat(fd.temperature), FFromInt(30)),
   humidity    |-> Or(ParseFloat(fd.humidity), FFromInt(70)),
   rainfall    |-> Or(ParseFloat(fd.rainfall), FFromInt(10))]

\* the results object of the try block, for the form fd and the prediction
\* `predicted' that predictOutbreak resolved with
Results(fd, predicted) ==
  [riskLevel |-> Or(Get(predicted, "risk_level"), JStr("Medium")),
   riskScore |-> MathRound(FMulInt(Or(Get(predicted, "confidence"),
                                      FScale(FFromInt(3), -2)), 100)),
   location  |-> fd.location,
   state     |-> fd.state,
   factors   |-> Factors(fd) @@ [wind_speed |-> FFromInt(15)],
   environmentalImpacts |-> Or(Get(predicted, "weather_factors"), JObj(NoProps)),
   recommendations |-> Or(Get(predicted, "recommendations"), JArr(<<>>)),
   predictedCases  |-> Or(Get(predicted, "predicted_cases"), FFromInt(100)),
   realAiAnalysis  |->
     [model_used |-> "AI Prediction Service",
      accuracy_score |-> Or(Get(predicted, "confidence"), FScale(FFromInt(3), -2)),
      data_source |-> "Real-time Weather & Environmental Data"],
   quantumInsights |-> Null,
   timestamp |-> IsoNow]

\* the results object of the catch block
FallbackResults(fd) ==
  [riskLevel |-> JStr("Medium"),
   riskScore |-> FFromInt(65),
   location  |-> fd.location,
   state     |-> fd.state,
   factors   |-> Factors(fd) @@ [populationDensity |-> FFromInt(1000)],
   environmentalImpacts |->
     JObj([temperature_impact |-> FScale(FFromInt(3), -2),
           humidity_impact |-> FDec(8, 1), rainfall_impact |-> FDec(3, 1)]),
   recommendations |->
     JArr(<<JStr("Remove all sources of standing water"),
            JStr("Use mosquito repellent during peak hours"),
            JStr("Keep surroundings clean and dry"),
            JStr("Monitor for fever symptoms")>>),
   predictedCases |-> FFromInt(85),
   timestamp |-> IsoNow]

\* a handleSubmit that shows the error of a rejected predictOutbreak and stays
\* on the page
AfterPredictionStaying(page) ==
  IF page.promise.kind = "resolved" /\ page.promise.value.t # "null"
    THEN [page EXCEPT
            !.step = "navigated",
            !.toast = "Advanced AI Prediction Complete",
            !.navigated = [to |-> "/prediction-report",
                           results |-> Results(page.held, page.promise.value)],
            !.isLoading = FALSE]
    ELSE [page EXCEPT
            !.step = "idle",
            !.toast = "Prediction Service Issue",
            !.isLoading = FALSE]

\* handleSubmit after its await, and its finally block: the rest of the try
\* block when predictOutbreak resolved with a value whose properties can be
\* read, the catch block otherwise
AfterPrediction(page) ==
  IF page.promise.kind = "resolved" /\ page.promise.value.t # "null"
    THEN [page EXCEPT
            !.step = "navigated",
            !.toast = "Advanced AI Prediction Complete",
            !.navigated = [to |-> "/prediction-report",
                           results |-> Results(page.held, page.promise.value)],
            !.isLoading = FALSE]
    ELSE [page EXCEPT
            !.step = "navigated",
            !.toast = "Prediction Service Issue",
            !.navigated = [to |-> "/prediction-report",
                           results |-> FallbackResults(page.held)],
            !.isLoading = FALSE]

\* handleSubmit up to its await: the guard, and predictOutbreak up to its
\* health fetch
PredictHandleSubmit ==
  /\ predictPage.step = "idle"
  /\ predictPage' =
       IF predictPage.formData.location = "" \/ predictPage.formData.state = ""
         THEN [predictPage EXCEPT !.toast = "Missing Information"]
         ELSE [predictPage EXCEPT !.step = "awaitHealth",
                                  !.isLoading = TRUE,
                                  !.held = predictPage.formData,
                                  !.promise = Pending,
                                  !.toast = "AI Analysis in Progress"]
  /\ UNCHANGED <<clientVars, gatewayVars, scorerVars, reportPage>>

\* the health fetch of the enhanced client ends with h: healthCheck resolves
\* with response.ok, or with false when the fetch rejected, and
\* predictOutbreak requests the prediction or rejects
EnhancedHealthEnds(h) ==
  /\ predictPage.step = "awaitHealth"
  /\ predictPage' =
       IF h = "ok"
         THEN [predictPage EXCEPT !.step = "awaitPredict"]
         ELSE [predictPage EXCEPT
                 !.step = "settled",
                 !.promise = EnhancedSettle(
                    [kind |-> "throw",
                     value |-> JsError(<<"AI service is currently unavailable. Please try again later.">>)])]
  /\ UNCHANGED <<clientVars, gatewayVars, scorerVars, reportPage>>

\* the prediction fetch ends, and predictOutbreak settles
EnhancedPredictEnds(r, st, b) ==
  /\ predictPage.step = "awaitPredict"
  /\ predictPage' = [predictPage EXCEPT
                       !.step = "settled",
                       !.promise = EnhancedSettle(AfterEnhancedPredict(r, st, b))]
  /\ UNCHANGED <<clientVars, gatewayVars, scorerVars, reportPage>>

\* handleSubmit resumes when the promise of predictOutbreak has settled
PredictHandleSubmitResumes ==
  /\ predictPage.step = "settled"
  /\ predictPage' = AfterPrediction(predictPage)
  /\ UNCHANGED <<clientVars, gatewayVars, scorerVars, reportPage>>

PagesInit ==
  /\ reportPage = ReportPage(Null, "", JStr(""), Null)
  /\ predictPage = PredictPageAsMounted

Init == ClientInit /\ GatewayInit /\ assessed = NoAssessment /\ PagesInit

Next ==
  \/ \E req \in Requests : PredictOutbreakCall(req)
  \/ \E h \in FetchOutcomes : HealthReplies(h)
  \/ \E r \in FetchOutcomes : \E b \in PredictBodies(r) : PredictReplies(r, b)
  \/ \E args \in ReportArguments : SubmitReportCall(args) /\ UNCHANGED pageVars
  \/ \E r \in FetchOutcomes : \E st \in StatusTexts(r) :
        \E b \in ReportReplyBodies(r) : ReportReplies(r, st, b)

\* the client on its own: the gateway is left as constructed
Spec == Init /\ [][Next]_vars

NextGateway ==
  \/ \E rnd \in RandomTriples : \E location \in Locations :
        GetWeatherWithRisk(location, rnd)
  \/ PrimaryReplies
  \/ SecondaryReplies
  \/ Tick

\* the gateway on its own: the client is left as constructed
SpecGateway == Init /\ [][NextGateway]_vars

NextOverlap ==
  \/ \E i \in Flights : \E location \in Locations : GetWeatherStackData(i, location)
  \/ \E i \in Flights : \E r \in FetchOutcomes : \E b \in WeatherStackBodies(r) :
        WeatherStackFetchEnds(i, r, b)
  \/ Tick

\* calls of getWeatherStackData that overlap at their await points
SpecOverlap == Init /\ [][NextOverlap]_vars

\* the report page once its visitor has chosen a file or not, entered a
\* location and a contact or not, and had the image analysed or not
InitReport ==
  /\ ClientInit /\ GatewayInit /\ assessed = NoAssessment
  /\ \E file \in {Null, ImageFile} : \E loc \in ReportLocations :
       \E contact \in {JStr(""), JStr("012-3456789")} :
         \E result \in {Null, TransformReport(JObj(ReportExtras))} :
           reportPage = ReportPage(file, loc, contact, result)
  /\ predictPage = PredictPageAsMounted

NextReport ==
  \/ ReportHandleSubmit
  \/ \E r \in FetchOutcomes : \E st \in StatusTexts(r) :
        \E b \in ReportReplyBodies(r) : ReportReplies(r, st, b)
  \/ ReportHandleSubmitResumes

\* the report page over the client
SpecReport == InitReport /\ [][NextReport]_vars

NextPredict ==
  \/ \E value \in {"", "Shah Alam", "Klang"} : InputChanges("location", value)
  \/ \E value \in {"Selangor", "Johor"} : InputChanges("state", value)
  \/ \E i \in 1..MaxChanges : \E r \in FetchOutcomes :
        \E b \in CurrentWeatherBodies(r) : WeatherFetchEnds(i, r, b)

\* the prediction page and its weather fetches, while its form is filled in
SpecPredict == Init /\ [][NextPredict]_vars

\* the prediction page once its visitor has entered a location and a state
\* or not, and a weather fetch has filled in the weather fields or not
InitSubmit ==
  /\ ClientInit /\ GatewayInit /\ assessed = NoAssessment
  /\ reportPage = ReportPage(Null, "", JStr(""), Null)
  /\ \E loc \in {"", "Shah Alam", "Klang"} : \E st \in {"", "Selangor", "Johor"} :
       \E b \in CurrentWeatherBodies("ok") :
         predictPage =
           With(GetWeatherData("ok", b), LAMBDA weatherData :
             IF weatherData.temperature.t = "undefined" THEN
               [PredictPageAsMounted EXCEPT !.formData.location = loc,
                                            !.formData.state = st]
             ELSE
               [PredictPageAsMounted EXCEPT
                  !.formData.location = loc,
                  !.formData.state = st,
                  !.formData.temperature = NumberToString(weatherData.temperature),
                  !.formData.humidity = NumberToString(weatherData.humidity),
                  !.formData.rainfall = NumberToString(weatherData.rainfall),
                  !.formData.windSpeed = NumberToString(weatherData.windSpeed)])

NextSubmit ==
  \/ PredictHandleSubmit
  \/ \E h \in FetchOutcomes : EnhancedHealthEnds(h)
  \/ \E r \in FetchOutcomes : \E st \in StatusTexts(r) :
        \E b \in EnhancedPredictBodies(r) : EnhancedPredictEnds(r, st, b)
  \/ PredictHandleSubmitResumes

\* handleSubmit of the prediction page over the enhanced client, when every
\* fetch of the client ends and a settled promise resumes the function that
\* awaits it
FairSubmit ==
  /\ InitSubmit
  /\ [][NextSubmit]_vars
  /\ WF_vars(\E h \in FetchOutcomes : EnhancedHealthEnds(h))
  /\ WF_vars(\E r \in FetchOutcomes : \E st \in StatusTexts(r) :
               \E b \in EnhancedPredictBodies(r) : EnhancedPredictEnds(r, st, b))
  /\ WF_vars(PredictHandleSubmitResumes)

InitScorer == ClientInit /\ GatewayInit /\ ScorerCalled /\ PagesInit

NextScorer == AssessDengueRisk

\* the scorer on its own, called with any of the arguments: the client and
\* the gateway are left as constructed
SpecScorer == InitScorer /\ [][NextScorer]_vars
(***************************************************************************)
(* What a caller observes of a call of predictOutbreak that has ended.     *)
(***************************************************************************)
PredictReturned == pc = "predictDone" /\ prediction.kind = "resolved"

\* status "success (simulated)" and weather_data.simulated = true
MarkedSimulated(res) ==
  /\ res.status = "success (simulated)"
  /\ Get(res.weather_data, "simulated") = [t |-> "boolean", b |-> TRUE]

\* status "success" and no simulated flag
MarkedBackend(res) ==
  /\ res.status = "success"
  /\ Get(res.weather_data, "simulated") = Undefined

\* 0 <= x <= 1
InUnitInterval(x) == FLe(FZero, x) /\ FLe(x, FOne)

\* the binary64 value next above a positive x
NextUp(x) ==
  With(Precision - LBitLen(x.m), LAMBDA k :
    FRound(FALSE, LAdd(LShl(x.m, k), <<1>>), x.e - k, FALSE))

\* C1: predictOutbreak never rejects, and once the fetches it awaits have
\* ended it has resolved with a prediction result, for every request and
\* every outcome of the health probe and of the prediction call (OK, non-OK,
\* transport exception, unparsable body).
PredictOutbreakAlwaysResolves ==
  /\ prediction.kind # "rejected"
  /\ pc = "predictDone" =>
       /\ prediction.kind = "resolved"
       /\ prediction.value.status \in {"success", "success (simulated)"}

\* C1 witness: the prediction call answered OK with a body that does not
\* parse, and predictOutbreak resolved
PredictResolvedAfterUnparsableBody ==
  /\ PredictReturned
  /\ probe = "ok" /\ reply = "ok" /\ body = Unparsable

\* C2: the POST to the prediction endpoint is issued only as the second
\* request of an invocation whose health probe returned OK; an invocation
\* whose probe is non-OK or fails issues the health request alone and
\* returns the simulated result.
HealthProbeGatesPrediction ==
  /\ \A i \in 1..Len(fetches) :
       fetches[i] = "POST /predict/live-weather" =>
         i = 2 /\ fetches[1] = "GET /health" /\ probe = "ok"
  /\ (pc = "predictDone" /\ probe \in {"nonok", "throw"}) =>
       /\ fetches = <<"GET /health">>
       /\ prediction.kind = "resolved"
       /\ MarkedSimulated(prediction.value)
       /\ prediction.value = getSimulatedPrediction(data)

\* C2 witness: an invocation ended after a non-OK probe
PredictEndedAfterNonOkProbe ==
  PredictReturned /\ probe = "nonok" /\ fetches = <<"GET /health">>

\* C3 as stated: the result is marked simulated if and only if the probe was
\* non-OK, the prediction response was non-OK, a transport exception occurred
\* or the OK payload carried an error field, and is otherwise marked
\* backend-derived and built from the backend response.
ProvenanceAsStated ==
  PredictReturned =>
    LET res    == prediction.value
        listed == \/ probe = "nonok" \/ reply = "nonok"
                  \/ probe = "throw" \/ reply = "throw"
                  \/ Has(body, "error")
    IN  /\ MarkedSimulated(res) <=> listed
        /\ ~listed => MarkedBackend(res) /\ res = TransformPrediction(body)

\* the conditions under which predictOutbreak computes its result locally
Degraded ==
  \/ probe \in {"nonok", "throw"}
  \/ reply \in {"nonok", "throw"}
  \/ body.t \in {"unparsable", "null"}
  \/ Truthy(Get(body, "error"))

\* C3: the result is marked simulated if and only if the probe was non-OK or
\* failed, the prediction response was non-OK, an exception occurred while
\* fetching or reading the response (transport error, unparsable or null
\* body) or the OK payload carried an error field with a truthy value; it is
\* then the simulated prediction of the request, and is otherwise marked
\* backend-derived and built from the backend response.
ProvenanceTruthful ==
  PredictReturned =>
    LET res == prediction.value
    IN  /\ MarkedSimulated(res) <=> Degraded
        /\ MarkedBackend(res) <=> ~Degraded
        /\ Degraded => res = getSimulatedPrediction(data)
        /\ ~Degraded => res = TransformPrediction(body)

\* C3 witness: an OK payload with an error message gave a simulated result
SimulatedAfterErrorPayload ==
  /\ PredictReturned
  /\ probe = "ok" /\ reply = "ok"
  /\ Get(body, "error") = JStr("Model not loaded")
  /\ MarkedSimulated(prediction.value)

\* C4: every simulated result follows the rule: temperature impact 0.8 if
\* temperature > 28 else 0.5, humidity impact 0.9 if humidity > 70 else 0.6,
\* rainfall impact 0.7 if rainfall > 5 else 0.4; the probability is the mean
\* of the three (their binary64 sum, left to right, divided by 3); the level
\* is Critical if the probability > 0.8, High if > 0.6, Medium if > 0.4, else
\* Low; the predicted cases are floor(probability * 150); confidence is 0.75.
SimulatedFollowsRule ==
  (PredictReturned /\ MarkedSimulated(prediction.value)) =>
    LET res == prediction.value
        ti  == IF FGt(Get(data, "temperature"), FFromInt(28)) THEN FDec(8, 1) ELSE FDec(5, 1)
        hi  == IF FGt(Get(data, "humidity"), FFromInt(70)) THEN FDec(9, 1) ELSE FDec(6, 1)
        ri  == IF FGt(Get(data, "rainfall"), FFromInt(5)) THEN FDec(7, 1) ELSE FDec(4, 1)
        p   == res.prediction.outbreak_probability
    IN  /\ res.environmental_factors.temperature_impact = ti
        /\ res.environmental_factors.humidity_impact = hi
        /\ res.environmental_factors.rainfall_impact = ri
        /\ p = FDivInt(FAdd(FAdd(ti, hi), ri), 3)
        /\ res.prediction.risk_level =
             JStr(IF FGt(p, FDec(8, 1)) THEN "Critical"
                  ELSE IF FGt(p, FDec(6, 1)) THEN "High"
                  ELSE IF FGt(p, FDec(4, 1)) THEN "Medium"
                  ELSE "Low")
        /\ res.prediction.predicted_cases = FFromInt(FFloor(FMulInt(p, 150)))
        /\ res.prediction.confidence = FDec(75, 2)

\* C4 witness: a simulated result for a request with a temperature above 28,
\* a humidity of at most 70 and no rainfall
SimulatedForMixedRequest ==
  /\ PredictReturned /\ MarkedSimulated(prediction.value)
  /\ Get(data, "temperature") = FFromInt(32)
  /\ Get(data, "humidity") = FFromInt(70)
  /\ Get(data, "rainfall") = Undefined
  /\ prediction.value.prediction.risk_level = JStr("Medium")

\* the request {temperature: 32, humidity: 80, rainfall: 10}
HotHumidWetRequest ==
  JObj([location |-> JStr("Kuala Lumpur"), state |-> JStr("Selangor"),
        temperature |-> FFromInt(32), humidity |-> FFromInt(80),
        rainfall |-> FFromInt(10)])

\* the backend fails: the probe or the prediction call is non-OK or throws
BackendFailed == probe \in {"nonok", "throw"} \/ reply \in {"nonok", "throw"}

\* C5 as stated: for {temperature: 32, humidity: 80, rainfall: 10} and a
\* failing backend the result is simulated with level Critical, outbreak
\* probability 0.8 and predicted cases 120.
HotHumidWetAsStated ==
  (PredictReturned /\ data = HotHumidWetRequest /\ BackendFailed) =>
    /\ MarkedSimulated(prediction.value)
    /\ prediction.value.prediction.risk_level = JStr("Critical")
    /\ prediction.value.prediction.outbreak_probability = FDec(8, 1)
    /\ prediction.value.prediction.predicted_cases = FFromInt(120)

\* C5: for {temperature: 32, humidity: 80, rainfall: 10} and a failing
\* backend the result is simulated with level Critical, predicted cases 120
\* and an outbreak probability of 0.8000000000000002, the binary64 value next
\* above 0.8.
HotHumidWetIsCritical ==
  (PredictReturned /\ data = HotHumidWetRequest /\ BackendFailed) =>
    /\ MarkedSimulated(prediction.value)
    /\ prediction.value.prediction.risk_level = JStr("Critical")
    /\ prediction.value.prediction.outbreak_probability = NextUp(FDec(8, 1))
    /\ prediction.value.prediction.predicted_cases = FFromInt(120)

\* C5 witness: the request was answered after the probe threw
HotHumidWetAfterFailedProbe ==
  PredictReturned /\ data = HotHumidWetRequest /\ probe = "throw"

\* the variant of an OK payload the prediction fields are to be read from
PreferredPrediction(b) ==
  IF Present(b, "ai_analysis") THEN b.ai_analysis
  ELSE IF Present(b, "risk_assessment") THEN b.risk_assessment
  ELSE IF Present(b, "basic_prediction") THEN b.basic_prediction
  ELSE b

\* the variant of an OK payload the weather fields are to be read from
PreferredWeather(b) ==
  IF Present(b, "real_weather_data") THEN b.real_weather_data
  ELSE Get(b, "weather_data")

\* C6: a backend-derived result takes its prediction fields from ai_analysis
\* if present, else risk_assessment, else basic_prediction, else the top
\* level, and its weather fields from real_weather_data if present, else
\* weather_data; where the preferred variant holds a value for a field, the
\* field of the result is computed from that value and not from the one of a
\* variant of lower precedence.
CoalescingPrecedence ==
  (PredictReturned /\ MarkedBackend(prediction.value)) =>
    LET res == prediction.value
        src == PreferredPrediction(body)
        wd  == PreferredWeather(body)
    IN  /\ Truthy(Get(src, "risk_level")) => res.prediction.risk_level = src.risk_level
        /\ Truthy(Get(src, "predicted_cases")) =>
             res.prediction.predicted_cases = src.predicted_cases
        /\ Truthy(Get(src, "confidence")) =>
             res.prediction.confidence = src.confidence
        /\ Truthy(Get(src, "risk_score")) =>
             res.prediction.outbreak_probability = FDivInt(src.risk_score, 100)
        /\ ~Has(src, "risk_level") => res.prediction.risk_level = JStr("Medium")
        /\ res.weather_data = wd
        /\ Has(wd, "temperature") =>
             res.environmental_factors.temperature_impact
               = FDivInt(wd.temperature, 40)
        /\ Has(wd, "humidity") =>
             res.environmental_factors.humidity_impact
               = FDivInt(wd.humidity, 100)

\* C6 witness: a payload with all three nested variants and both weather
\* records gave a backend-derived result
AllVariantsCoalesced ==
  /\ PredictReturned /\ MarkedBackend(prediction.value)
  /\ Present(body, "ai_analysis") /\ Present(body, "risk_assessment")
  /\ Present(body, "basic_prediction")
  /\ Present(body, "real_weather_data") /\ Present(body, "weather_data")
  /\ Has(body.ai_analysis, "risk_level")

\* the prediction call answered OK with a payload that has no error field
OkWithoutErrorField ==
  /\ pc = "predictDone" /\ probe = "ok" /\ reply = "ok"
  /\ body.t = "object" /\ ~Has(body, "error")

\* C7 as stated: after an OK answer without an error field the result is
\* backend-derived and every missing field is defaulted: a missing confidence
\* becomes 0.85, a missing predicted_cases 85, a missing risk_level Medium,
\* missing weather data gives the impacts 0.75 / 0.8 / 0.3, and a field
\* missing from the weather record leaves every impact a number.
MissingFieldsDefaulted ==
  OkWithoutErrorField =>
    /\ PredictReturned
    /\ MarkedBackend(prediction.value)
    /\ LET res == prediction.value
           src == PreferredPrediction(body)
           wd  == PreferredWeather(body)
           env == res.environmental_factors
       IN  /\ ~Has(src, "confidence") => res.prediction.confidence = FDec(85, 2)
           /\ ~Has(src, "predicted_cases") =>
                res.prediction.predicted_cases = FFromInt(85)
           /\ ~Has(src, "risk_level") => res.prediction.risk_level = JStr("Medium")
           /\ wd = Undefined =>
                /\ env.temperature_impact = FDec(75, 2)
                /\ env.humidity_impact = FDec(8, 1)
                /\ env.rainfall_impact = FDec(3, 1)
           /\ IsNum(res.prediction.outbreak_probability)
           /\ IsNum(env.temperature_impact)
           /\ IsNum(env.humidity_impact)
           /\ IsNum(env.rainfall_impact)

\* a value other than undefined and null
Defined(v) == v.t \notin {"undefined", "null"}

\* C8: every result predictOutbreak or submitReport returns has its
\* non-optional fields defined: probability, risk level, predicted cases,
\* confidence, the four impacts, recommendations, status and timestamp of a
\* prediction; category, confidence, risk level, recommendations, points, xp,
\* timestamp and report id of a report.
ResultsFullyDefined ==
  /\ PredictReturned =>
       LET res == prediction.value
       IN  /\ Defined(res.prediction.outbreak_probability)
           /\ Defined(res.prediction.risk_level)
           /\ Defined(res.prediction.predicted_cases)
           /\ Defined(res.prediction.confidence)
           /\ Defined(res.environmental_factors.temperature_impact)
           /\ Defined(res.environmental_factors.humidity_impact)
           /\ Defined(res.environmental_factors.rainfall_impact)
           /\ Defined(res.environmental_factors.population_density_impact)
           /\ Defined(res.recommendations)
           /\ res.status \in {"success", "success (simulated)"}
           /\ Defined(res.timestamp)
  /\ (pc = "reportDone" /\ report.kind = "resolved") =>
       LET res == report.value
       IN  /\ res.classification.category
                \in {"Hotspot", "Potential", "Not Hotspot", "Invalid"}
           /\ Defined(res.classification.confidence)
           /\ Defined(res.classification.risk_level)
           /\ Defined(res.ai_analysis.recommendations)
           /\ Defined(res.gamification.points_awarded)
           /\ Defined(res.gamification.xp_gained)
           /\ Defined(res.status)
           /\ Defined(res.timestamp)
           /\ Defined(res.image_id)

\* C8 witness: the prediction call answered OK with an empty object
PredictReturnedForEmptyObject ==
  PredictReturned /\ reply = "ok" /\ body = JObj(NoProps)

\* C9 as stated: the outbreak probability, the confidence and the four
\* environmental impacts of every result of predictOutbreak lie in [0, 1].
PredictionNumbersInUnitInterval ==
  PredictReturned =>
    LET res == prediction.value
        env == res.environmental_factors
    IN  /\ InUnitInterval(res.prediction.outbreak_probability)
        /\ InUnitInterval(res.prediction.confidence)
        /\ InUnitInterval(env.temperature_impact)
        /\ InUnitInterval(env.humidity_impact)
        /\ InUnitInterval(env.rainfall_impact)
        /\ InUnitInterval(env.population_density_impact)
\* the readings of a record of the gateway: everything but lastUpdated
Readings(w) ==
  [temperature |-> w.temperature, humidity |-> w.humidity,
   rainfall |-> w.rainfall, riskFactor |-> w.riskFactor, location |-> w.location]

\* two calls in a row for one location, both ended
SecondCallEnded ==
  /\ call.pc = "done" /\ prev.pc = "done"
  /\ call.location = prev.location

\* C10 as stated: a second call for the same location, started less than ten
\* minutes after a first call that the primary or the secondary provider
\* served, issues no request and returns the record the first call returned.
SecondCallIdenticalAsStated ==
  ( /\ SecondCallEnded
    /\ prev.served \in {"primary", "secondary"}
    /\ call.startedAt - prev.startedAt < cacheTimeout )
  => /\ call.requests = <<>>
     /\ call.weather = prev.weather

\* C10: when the primary provider served the first call, a second call for
\* the same location started while that entry is younger than ten minutes
\* issues no request and returns the same temperature, humidity, rainfall,
\* riskFactor and location, with lastUpdated the time of the second call;
\* when the secondary provider served the first call after the request to
\* the primary failed, the second call requests the primary again first.
SecondCallServedFromCache ==
  /\ ( /\ SecondCallEnded
       /\ prev.served = "primary"
       /\ call.startedAt - prev.primaryAt < cacheTimeout )
     => /\ call.requests = <<>>
        /\ call.served = "primary"
        /\ Readings(call.weather) = Readings(prev.weather)
        /\ call.weather.lastUpdated = LocaleTimeString(call.startedAt)
  /\ ( /\ prev.pc = "done" /\ call.pc # "idle"
       /\ call.location = prev.location
       /\ prev.served = "secondary" /\ prev.primary = "failed" )
     => /\ call.requests # <<>>
        /\ call.requests[1] = "GET /current"

\* a second call served from the entry of the first, some minutes later
SecondCallSomeMinutesLater ==
  /\ SecondCallEnded
  /\ prev.served = "primary"
  /\ call.startedAt > prev.primaryAt
  /\ call.startedAt - prev.primaryAt < cacheTimeout
  /\ call.requests = <<>>
  /\ call.weather.lastUpdated # prev.weather.lastUpdated

\* the entry of key k is younger than ten minutes
YoungEntry(k) ==
  cache[k] # Undefined /\ now - cache[k].timestamp < 10 * 60 * 1000

\* the step starts a call of getWeatherWithRisk
StartsCall == calls' = calls + 1

\* the step is the one in which the call turns to the secondary provider
TurnsToSecondary ==
  /\ call' # call /\ call.pc # "awaitSecondary"
  /\ call'.secondary # "none"

\* C11: a call is answered from the entry of a key, without a request for
\* that key, exactly when the entry is younger than ten minutes at that
\* moment; otherwise the request is issued.  An entry is never removed, and
\* it changes only in a step that stores the body of a successful fetch for
\* its key, so an expired entry stays until then.
EntryServedExactlyWhileYoung ==
  [][ /\ StartsCall =>
           IF YoungEntry(WeatherStackKey(call'.location))
             THEN /\ call'.primary = "hit"
                  /\ call'.primaryAt = cache[WeatherStackKey(call'.location)].timestamp
                  /\ \A i \in 1..Len(call'.requests) : call'.requests[i] # "GET /current"
             ELSE /\ call'.primary = "requested"
                  /\ call'.requests = <<"GET /current">>
      /\ TurnsToSecondary =>
           IF YoungEntry(MalaysiaKey)
             THEN /\ call'.secondary = "hit"
                  /\ call'.secondaryAt = cache[MalaysiaKey].timestamp
                  /\ \A i \in 1..Len(call'.requests) :
                        call'.requests[i] # "GET /weather/forecast"
             ELSE /\ call'.secondary = "requested"
                  /\ call'.requests[Len(call'.requests)] = "GET /weather/forecast"
      /\ \A k \in CacheKeys :
           /\ cache[k] # Undefined => cache'[k] # Undefined
           /\ cache'[k] # cache[k] =>
                /\ cache'[k].timestamp = now
                /\ \/ k = MalaysiaKey /\ call.pc = "awaitSecondary"
                        /\ call'.secondary = "stored"
                   \/ k = WeatherStackKey(call.location) /\ call.pc = "awaitPrimary"
                        /\ call'.primary = "stored"
    ]_vars

\* a call has requested the primary provider while the entry of its key,
\* stored ten minutes or more before, is still in the cache
RequestedWhileExpiredEntryKept ==
  /\ call.pc = "awaitPrimary" /\ prev.pc = "done"
  /\ call.location = prev.location
  /\ prev.primary = "stored"
  /\ call.startedAt - prev.primaryAt >= 10 * 60 * 1000
  /\ cache[WeatherStackKey(call.location)].timestamp = prev.primaryAt

\* what getWeatherStackData returned to the call, once it has: null after a
\* failed request, and otherwise the data of the entry of the call's key
PrimaryData ==
  IF call.primary = "failed" THEN Null
  ELSE cache[WeatherStackKey(call.location)].data

\* C12: within a call the sources are tried in the order cache, primary,
\* secondary, fallback: the secondary provider is turned to only after the
\* primary produced no data, never when the primary served the call, and
\* the fallback reading is generated only after both providers were tried
\* and produced no usable data.
SourcesTriedInOrder ==
  call.pc # "idle" =>
    /\ call.secondary # "none" =>
         /\ call.primary \in {"hit", "stored", "failed"}
         /\ ~Truthy(PrimaryData)
    /\ \A i \in 1..Len(call.requests) :
         call.requests[i] = "GET /weather/forecast" =>
           /\ i = Len(call.requests)
           /\ \A j \in 1..(i - 1) : call.requests[j] = "GET /current"
    /\ call.served = "primary" => call.secondary = "none"
    /\ call.served = "fallback" =>
         /\ call.primary \in {"hit", "stored", "failed"}
         /\ call.secondary \in {"hit", "stored", "failed"}

\* C13: when a call returned the fallback reading, the next call for the
\* same location requests the primary provider again.
FallbackRetriesPrimary ==
  ( /\ prev.pc = "done" /\ prev.served = "fallback"
    /\ call.pc # "idle" /\ call.location = prev.location )
  => /\ call.requests # <<>>
     /\ call.requests[1] = "GET /current"

\* the key of the i-th request of the call c
KeyOfRequest(c, i) ==
  IF c.requests[i] = "GET /current" THEN WeatherStackKey(c.location) ELSE MalaysiaKey

\* the call c has had an OK response to a request for the key k
OkResponseFor(c, k) ==
  /\ c.pc # "idle"
  /\ \E i \in 1..Len(c.responses) : c.responses[i] = "ok" /\ KeyOfRequest(c, i) = k

\* the bodies a provider can answer with that parse
ParsedBodies ==
  (WeatherStackBodies("ok") \cup MalaysiaBodies("ok")) \ {Unparsable}

\* C14: the cache is written only by successful fetches and by every one
\* of them: a key holds an entry if and only if some earlier request for
\* that key returned OK, and no entry holds a fallback reading or the
\* outcome of a failed request, which the error payload of a provider is.
EntryIffOkResponse ==
  \A k \in CacheKeys :
    /\ cache[k] # Undefined <=> (OkResponseFor(call, k) \/ OkResponseFor(prev, k))
    /\ cache[k] # Undefined =>
         /\ cache[k].data \in ParsedBodies
         /\ cache[k].data # WeatherStackError

\* the step ends a request for the key k
EndsRequestFor(k) ==
  /\ call' # call
  /\ \/ call.pc = "awaitPrimary" /\ k = WeatherStackKey(call.location)
     \/ call.pc = "awaitSecondary" /\ k = MalaysiaKey

\* the request the step ends had an OK response whose body parsed
ParsedOkResponse ==
  /\ call'.responses[Len(call'.responses)] = "ok"
  /\ IF call.pc = "awaitPrimary" THEN call'.primary = "stored"
                                   ELSE call'.secondary = "stored"

\* What the code does about the cache: the entry of a key is written in a
\* step exactly when the step ends
\* a request for that key with an OK response whose body parses as JSON;
\* the entry then holds that body and the time of the step, and it is in
\* the cache no later than the call returns.  A request that fails, or whose
\* OK response does not parse, leaves the cache as it was, and no entry ever
\* holds a fallback reading.
CacheWrittenByParsedOkResponses ==
  [][ \A k \in CacheKeys :
        /\ (EndsRequestFor(k) /\ ParsedOkResponse) =>
             /\ cache'[k] # Undefined
             /\ cache'[k].timestamp = now
             /\ cache'[k].data \in ParsedBodies
        /\ ~(EndsRequestFor(k) /\ ParsedOkResponse) => cache'[k] = cache[k]
    ]_vars

\* a call returned after an OK response of the primary provider that did
\* not parse, which left no entry, and an OK response of the secondary that
\* did, which is in the cache
ParsedStoredUnparsedNot ==
  /\ call.pc = "done"
  /\ call.responses = <<"ok", "ok">>
  /\ call.primary = "failed" /\ call.secondary = "stored"
  /\ cache[WeatherStackKey(call.location)] = Undefined
  /\ cache[MalaysiaKey] # Undefined
  /\ now > 0 /\ cache[MalaysiaKey].timestamp = now

\* x lies in the closed interval from lo to hi
Within(x, lo, hi) ==
  FLe(FFromInt(lo), x) /\ FLe(x, FFromInt(hi))

\* C15: every reading returned on the fallback path has a temperature in
\* [28,34], a humidity in [65,85] and a rainfall in [0,20], all in whole
\* units, and its lastUpdated ends in " (Estimated)"; no reading obtained
\* from a provider carries that tag.
FallbackInRangeAndTagged ==
  \A c \in {call, prev} :
    c.pc = "done" =>
      IF c.served = "fallback"
        THEN /\ Within(c.weather.temperature.value, 28, 34)
             /\ Within(c.weather.humidity.value, 65, 85)
             /\ Within(c.weather.rainfall.value, 0, 20)
             /\ \A f \in {"temperature", "humidity", "rainfall"} :
                  MathRound(c.weather[f].value) = c.weather[f].value
             /\ c.weather.lastUpdated.suffix = " (Estimated)"
        ELSE /\ c.served \in {"primary", "secondary"}
             /\ c.weather.lastUpdated.suffix = ""

\* a fallback reading at the upper end of every range, after a call that a
\* provider served
FallbackAtUpperEnds ==
  /\ call.pc = "done" /\ call.served = "fallback"
  /\ call.weather.temperature.value = FFromInt(34)
  /\ call.weather.humidity.value = FFromInt(85)
  /\ call.weather.rainfall.value = FFromInt(20)
  /\ call.weather.lastUpdated.suffix = " (Estimated)"
  /\ prev.pc = "done" /\ prev.served \in {"primary", "secondary"}

\* C16: getWeatherWithRisk never fails its caller: whatever the two
\* provider requests end in, the call ends by returning a weather record
\* that has a risk factor, one of the four levels of the scorer.
GatewayAlwaysReturnsRecord ==
  \A c \in {call, prev} :
    /\ c.pc \in {"idle", "awaitPrimary", "awaitSecondary", "done"}
    /\ c.pc = "done" =>
         /\ c.served \in {"primary", "secondary", "fallback"}
         /\ c.weather.riskFactor \in {"Low", "Medium", "High", "Critical"}
         /\ DOMAIN c.weather =
              {"temperature", "humidity", "rainfall", "riskFactor",
               "location", "lastUpdated"}

\* a call returned a record after reading the conditions of a payload
\* without them threw, and the call before it after both requests failed
ReturnedAfterTypeError ==
  /\ call.pc = "done" /\ call.primary = "stored" /\ call.secondary = "none"
  /\ call.served = "fallback"
  /\ call.weather.riskFactor \in {"Low", "Medium", "High", "Critical"}
  /\ prev.pc = "done" /\ prev.primary = "failed" /\ prev.secondary = "failed"
  /\ prev.served = "fallback"

\* the step ends the primary request of the call with an OK response that
\* carries the error payload of the provider
ErrorPayloadArrives ==
  /\ call.pc = "awaitPrimary" /\ call' # call
  /\ call'.responses = <<"ok">>
  /\ cache'[WeatherStackKey(call.location)] =
       CacheEntry(WeatherStackError, now)

\* the call c ended after the primary provider answered it with a body
\* that has no current conditions: reading them threw
EndedOnErrorPayload(c) ==
  /\ c.pc = "done" /\ c.primary = "stored"
  /\ c.secondary = "none" /\ c.served = "fallback"

\* C17: an OK response of the primary provider that carries an error
\* payload is treated as a transport error is: the payload is not cached,
\* the secondary provider is attempted in the same call, and a later call
\* within ten minutes requests the primary provider again.
ErrorPayloadAsTransportError ==
  [][ /\ ErrorPayloadArrives =>
           /\ cache' = cache
           /\ call'.secondary # "none"
      /\ ( /\ StartsCall /\ EndedOnErrorPayload(call)
           /\ call'.location = call.location
           /\ call'.startedAt - call.primaryAt < cacheTimeout ) =>
           /\ call'.requests # <<>>
           /\ call'.requests[1] = "GET /current"
    ]_vars

\* C18: the riskFactor of every record a call returns, whichever source
\* served it, is the level the scorer gives for the temperature, humidity
\* and rainfall reported in that record.
RiskMatchesReportedValues ==
  \A c \in {call, prev} :
    c.pc = "done" =>
      c.weather.riskFactor =
        calculateBreedingRisk(c.weather.temperature.value,
                              c.weather.humidity.value,
                              c.weather.rainfall.value)

\* the same of the records the primary provider served
PrimaryRiskMatchesReportedValues ==
  \A c \in {call, prev} :
    (c.pc = "done" /\ c.served = "primary") =>
      c.weather.riskFactor =
        calculateBreedingRisk(c.weather.temperature.value,
                              c.weather.humidity.value,
                              c.weather.rainfall.value)

\* four times the number x, which is a whole number of quarters
InQuarters(x) ==
  IF x.m = <<>> THEN 0
  ELSE (IF x.neg THEN -1 ELSE 1) * LToInt(x.m) * 2 ^ (x.e + 2)

\* the score of the reference for the temperature t, humidity h and
\* rainfall r given in quarters; a NaN meets none of the conditions
ReferenceScore(a) ==
  (IF ~IsNum(a.temp) THEN 0
   ELSE LET t == InQuarters(a.temp)
        IN  IF 4 * 25 <= t /\ t <= 4 * 30 THEN 3
            ELSE IF 4 * 30 < t /\ t <= 4 * 35 THEN 2
            ELSE IF t > 4 * 35 THEN 1 ELSE 0)
  + (IF ~IsNum(a.humidity) THEN 0
     ELSE LET h == InQuarters(a.humidity)
          IN  IF h >= 4 * 70 THEN 3
              ELSE IF 4 * 60 <= h /\ h < 4 * 70 THEN 2
              ELSE IF h < 4 * 50 THEN -1 ELSE 0)
  + (IF ~IsNum(a.rainfall) THEN 0
     ELSE LET r == InQuarters(a.rainfall)
          IN  IF r > 4 * 100 THEN 3
              ELSE IF 4 * 50 < r /\ r <= 4 * 100 THEN 2 ELSE 0)

ReferenceLevel(score) ==
  IF score >= 7 THEN "Critical"
  ELSE IF score >= 5 THEN "High"
  ELSE IF score >= 3 THEN "Medium" ELSE "Low"

\* C19: for every temperature, humidity and rainfall the level of the
\* scorer is the level of the reference: 3 for 25 <= temperature <= 30, 2
\* for 30 < temperature <= 35, 1 above 35; 3 for humidity >= 70, 2 for
\* 60 <= humidity < 70, -1 below 50; 3 for rainfall > 100, 2 for
\* 50 < rainfall <= 100; Critical from 7, High from 5, Medium from 3, else
\* Low.
ScorerEqualsReference ==
  assessed.pc = "returned" =>
    assessed.result.risk = ReferenceLevel(ReferenceScore(assessed.args))

\* the scorer returned for arguments at a threshold or just above it, which
\* score 2 + 2 + 3
ScoredJustAboveThresholds ==
  /\ assessed.pc = "returned"
  /\ assessed.args = [temp |-> Quarters(121), humidity |-> Quarters(240),
                      rainfall |-> Quarters(401)]
  /\ assessed.result.risk = "Critical"

\* riskScore when the rules have been applied to the arguments a
RiskScore(a) ==
  TemperatureRule(a.temp).score + HumidityRule(a.humidity).score
    + RainfallRule(a.rainfall).score

\* C20: the scorer is total: for all numbers, negative and out-of-range
\* ones among them, it returns one of the four levels, and its reasons are
\* not empty whenever the summed score is greater than 0.
ScorerTotalWithReasons ==
  /\ assessed.pc \in {"idle", "called", "returned"}
  /\ assessed.pc = "returned" =>
       /\ assessed.result.risk \in {"Low", "Medium", "High", "Critical"}
       /\ RiskScore(assessed.args) > 0 => assessed.result.reasoning # <<>>

\* the scorer returned for a negative temperature and rainfall with a
\* humidity that scores 2
ScoredNegativeArguments ==
  /\ assessed.pc = "returned"
  /\ assessed.args = [temp |-> Quarters(-20), humidity |-> Quarters(240),
                      rainfall |-> Quarters(-4)]
  /\ RiskScore(assessed.args) = 2
  /\ assessed.result.risk = "Low"
  /\ Len(assessed.result.reasoning) = 1

\* the reasons the reference expects of the three rules for the arguments
\* a, in the order temperature, humidity, rainfall
RuleReasons(a) ==
  (IF ~IsNum(a.temp) THEN <<>>
   ELSE LET t == InQuarters(a.temp)
        IN  IF 4 * 25 <= t /\ t <= 4 * 30
              THEN <<Reason("Temperature in optimal Aedes breeding range (25-30 C)",
                            Undefined)>>
            ELSE IF 4 * 30 < t /\ t <= 4 * 35
              THEN <<Reason("High temperature accelerates mosquito development",
                            Undefined)>>
            ELSE IF t > 4 * 35
              THEN <<Reason("Extreme heat may reduce mosquito activity", Undefined)>>
            ELSE <<>>)
  \o (IF ~IsNum(a.humidity) THEN <<>>
      ELSE LET h == InQuarters(a.humidity)
           IN  IF h >= 4 * 70
                 THEN <<Reason("High humidity (${humidity}%) supports mosquito survival",
                               a.humidity)>>
               ELSE IF h >= 4 * 60
                 THEN <<Reason("Moderate humidity suitable for mosquito breeding",
                               Undefined)>>
               ELSE IF h < 4 * 50
                 THEN <<Reason("Low humidity inhibits mosquito survival", Undefined)>>
               ELSE <<>>)
  \o (IF ~IsNum(a.rainfall) THEN <<>>
      ELSE LET r == InQuarters(a.rainfall)
           IN  IF r > 4 * 100
                 THEN <<Reason("Heavy rainfall creates multiple breeding sites",
                               Undefined)>>
               ELSE IF r > 4 * 50
                 THEN <<Reason("Moderate rainfall provides water accumulation",
                               Undefined)>>
               ELSE <<>>)

\* the reason the level adds after those of the rules
LevelReasons(risk) ==
  IF risk = "Critical"
    THEN <<Reason("Conditions match July 2025 heatwave/September flood patterns",
                  Undefined)>>
  ELSE IF risk = "High"
    THEN <<Reason("Similar to peak monsoon conditions in Selangor", Undefined)>>
  ELSE <<>>

\* C21 as stated: the reasons the scorer returns are exactly the reasons of
\* the rules that changed the score, the temperature reason before the
\* humidity reason before the rainfall reason, with no other entries.
ReasonsAreRuleReasonsOnly ==
  assessed.pc = "returned" =>
    assessed.result.reasoning = RuleReasons(assessed.args)

\* C21: the reasons the scorer returns start with the reasons of the rules
\* that changed the score, one for each, the temperature reason before the
\* humidity reason before the rainfall reason; after them comes one more
\* entry when the level is Critical or High, the reason of that level, and
\* nothing else.
ReasonsAreRuleReasonsThenLevel ==
  assessed.pc = "returned" =>
    assessed.result.reasoning =
      RuleReasons(assessed.args) \o LevelReasons(assessed.result.risk)

\* the scorer returned with a reason of each rule and the reason of the
\* level Critical after them
ReasonsOfAllRulesAndLevel ==
  /\ assessed.pc = "returned"
  /\ assessed.args = [temp |-> Quarters(110), humidity |-> Quarters(280),
                      rainfall |-> Quarters(201)]
  /\ Len(assessed.result.reasoning) = 4
  /\ assessed.result.reasoning[2].arg = Quarters(280)
  /\ assessed.result.reasoning[4].text =
       "Conditions match July 2025 heatwave/September flood patterns"

\* the message of the error submitReport rejected with contains the text
\* txt: the message is the sequence of the pieces it was put together from
InMessage(txt) ==
  txt = "" \/ \E i \in 1..Len(report.value.message) : report.value.message[i] = txt

\* C22: submitReport propagates every failure and never puts a result in
\* its place: after a response that is not OK it rejects with an error whose
\* message contains the detail of the body when the body has one, and the
\* status text of the response otherwise; after a transport error it
\* rejects as well.
ReportFailuresPropagated ==
  (pc = "reportDone" /\ reply \in {"nonok", "throw"}) =>
    /\ report.kind = "rejected"
    /\ reply = "nonok" =>
         IF body.t = "object" /\ Has(body, "detail")
           THEN InMessage(body.detail.s)
           ELSE InMessage(statusText)

\* the same of the responses whose body is not the JSON value null
ReportFailuresPropagatedUnlessNull ==
  (pc = "reportDone" /\ reply \in {"nonok", "throw"} /\ body # Null) =>
    /\ report.kind = "rejected"
    /\ reply = "nonok" =>
         IF body.t = "object" /\ Has(body, "detail")
           THEN InMessage(body.detail.s)
           ELSE InMessage(statusText)

\* the category the vocabularies list for each of their words
ListedCategory ==
  [breeding     |-> "Hotspot",     high_risk    |-> "Hotspot",
   critical     |-> "Hotspot",     hotspot      |-> "Hotspot",
   medium_risk  |-> "Potential",   potential    |-> "Potential",
   low_risk     |-> "Not Hotspot", not_breeding |-> "Not Hotspot",
   clean        |-> "Not Hotspot", safe         |-> "Not Hotspot"]

\* submitReport resolved for an acknowledgment that carries a classification
ReportClassified ==
  /\ pc = "reportDone" /\ reply = "ok" /\ report.kind = "resolved"
  /\ Truthy(Get(body, "ai_classification"))

\* C23: the category of a result is the one the vocabularies list for the
\* word the backend classified the report with, in any letter case:
\* breeding, high_risk, critical, hotspot give Hotspot; medium_risk,
\* potential give Potential; low_risk, not_breeding, clean, safe give Not
\* Hotspot.
VocabularyMappedAsListed ==
  ReportClassified =>
    \A w \in DOMAIN ListedCategory :
      ToLowerCase(body.ai_classification.chars) = Word[w] =>
        report.value.classification.category = ListedCategory[w]

\* the same of the words other than not_breeding
VocabularyMappedAsListedButNotBreeding ==
  ReportClassified =>
    \A w \in DOMAIN ListedCategory \ {"not_breeding"} :
      ToLowerCase(body.ai_classification.chars) = Word[w] =>
        report.value.classification.category = ListedCategory[w]

\* the classification of the acknowledgment contains a word of the
\* vocabularies, in any letter case
ContainsVocabularyWord ==
  \E w \in DOMAIN ListedCategory :
    Includes(ToLowerCase(body.ai_classification.chars), Word[w])

\* C24: a classification that contains no word of the vocabularies, and an
\* absent classification, give the category Hotspot; the category of a
\* result is never Invalid.
UnrecognizedIsHotspot ==
  (pc = "reportDone" /\ report.kind = "resolved") =>
    /\ report.value.classification.category \in
         {"Hotspot", "Potential", "Not Hotspot"}
    /\ ~Truthy(Get(body, "ai_classification")) =>
         report.value.classification.category = "Hotspot"
    /\ (ReportClassified /\ ~ContainsVocabularyWord) =>
         report.value.classification.category = "Hotspot"

\* submitReport resolved with the category Hotspot for a classification
\* outside the vocabularies
UnknownClassifiedHotspot ==
  /\ ReportClassified /\ ~ContainsVocabularyWord
  /\ body.ai_classification.chars =
       <<"u", "n", "k", "n", "o", "w", "n", "_", "x", "y", "z">>
  /\ report.value.classification.category = "Hotspot"

\* the first of the properties f and g the acknowledgment supplies, and d
\* when it supplies neither
FirstSupplied(f, g, d) ==
  IF Has(body, f) THEN body[f] ELSE IF Has(body, g) THEN body[g] ELSE d

\* C25: the points of a result are the backend's points_earned when
\* supplied, else its points_awarded when supplied, else 50, and the xp is
\* xp_earned when supplied, else xp_gained when supplied, else 25: a value
\* the backend supplied is never replaced by the default.
RewardsAsSupplied ==
  (pc = "reportDone" /\ report.kind = "resolved") =>
    /\ report.value.gamification.points_awarded =
         FirstSupplied("points_earned", "points_awarded", FFromInt(50))
    /\ report.value.gamification.xp_gained =
         FirstSupplied("xp_earned", "xp_gained", FFromInt(25))

\* the same of the acknowledgments that supply no reward of 0
RewardsAsSuppliedUnlessZero ==
  ( /\ pc = "reportDone" /\ report.kind = "resolved"
    /\ \A f \in {"points_earned", "points_awarded", "xp_earned", "xp_gained"} :
         Has(body, f) => body[f] # FZero ) =>
    /\ report.value.gamification.points_awarded =
         FirstSupplied("points_earned", "points_awarded", FFromInt(50))
    /\ report.value.gamification.xp_gained =
         FirstSupplied("xp_earned", "xp_gained", FFromInt(25))

\* predictOutbreak returned a simulated prediction
SimulatedReturned == PredictReturned /\ MarkedSimulated(prediction.value)

\* C29 as stated: every simulated prediction has an outbreak probability
\* between 0.5 and 0.8 inclusive and predicted cases between 75 and 120,
\* and its risk level is never Low.
SimulatedBetweenHalfAndFourFifths ==
  SimulatedReturned =>
    /\ FLe(FDec(5, 1), prediction.value.prediction.outbreak_probability)
    /\ FLe(prediction.value.prediction.outbreak_probability, FDec(8, 1))
    /\ Within(prediction.value.prediction.predicted_cases, 75, 120)
    /\ prediction.value.prediction.risk_level # JStr("Low")

\* C29: every simulated prediction has an outbreak probability between 0.5
\* and 0.8000000000000002 inclusive, the binary64 value next above 0.8 that
\* (0.8 + 0.9 + 0.7) / 3 evaluates to, and predicted cases between 75 and
\* 120, and its risk level is never Low, for every request including one
\* with no weather fields.
SimulatedWithinReachedBounds ==
  SimulatedReturned =>
    /\ FLe(FDec(5, 1), prediction.value.prediction.outbreak_probability)
    /\ FLe(prediction.value.prediction.outbreak_probability, NextUp(FDec(8, 1)))
    /\ Within(prediction.value.prediction.predicted_cases, 75, 120)
    /\ prediction.value.prediction.risk_level # JStr("Low")

\* a simulated prediction for a request with no weather fields
SimulatedWithoutWeatherFields ==
  /\ SimulatedReturned
  /\ \A f \in {"temperature", "humidity", "rainfall"} : ~Has(data, f)
  /\ prediction.value.prediction.outbreak_probability = FDec(5, 1)
  /\ prediction.value.prediction.predicted_cases = FFromInt(75)
  /\ prediction.value.prediction.risk_level = JStr("Medium")

\* the step starts the call i of getWeatherStackData
StartsFlight(i) == flights[i].pc = "idle" /\ flights'[i].pc # "idle"

\* the step ends the fetch of the call i
EndsFlight(i) == flights[i].pc = "pending" /\ flights'[i].pc = "returned"

\* C30: calls of getWeatherStackData that overlap are not coalesced: a call
\* that starts while no entry of its key is younger than ten minutes issues
\* its own request, also while the fetch of another call for the same
\* location is pending; the timestamp of the entry of a key never
\* decreases; and the entry of a key is written exactly when a fetch for it
\* ends with an OK response whose body parsed, with that body and the time
\* of that step, so that it always holds the data of the successful fetch
\* that completed last.
OverlappingCallsLastWriterWins ==
  [][ /\ \A i \in Flights :
           /\ (StartsFlight(i) /\ ~YoungEntry(WeatherStackKey(flights'[i].location))) =>
                flights'[i].pc = "pending" /\ flights'[i].requested
           /\ (StartsFlight(i) /\ YoungEntry(WeatherStackKey(flights'[i].location))) =>
                /\ flights'[i].pc = "returned" /\ ~flights'[i].requested
                /\ flights'[i].result =
                     cache[WeatherStackKey(flights'[i].location)].data
           /\ (EndsFlight(i) /\ flights'[i].how = "stored") =>
                cache'[WeatherStackKey(flights[i].location)] =
                  [t |-> "object", data |-> flights'[i].result, timestamp |-> now]
      /\ \A k \in CacheKeys :
           /\ (cache[k] # Undefined /\ cache'[k] # Undefined) =>
                cache'[k].timestamp >= cache[k].timestamp
           /\ cache[k] # Undefined => cache'[k] # Undefined
           /\ cache'[k] # cache[k] =>
                \E i \in Flights :
                  /\ EndsFlight(i) /\ flights'[i].how = "stored"
                  /\ k = WeatherStackKey(flights[i].location)
    ]_vars

\* two calls for one location overlapped, each with a request of its own;
\* the one that did not start later ended last, and the entry holds its
\* data, not the different data the other call stored before
LaterCompletionOverwrote ==
  \E i, j \in Flights :
    /\ flights[i].pc = "returned" /\ flights[j].pc = "returned"
    /\ flights[i].location = flights[j].location
    /\ flights[i].requested /\ flights[j].requested
    /\ flights[i].how = "stored" /\ flights[j].how = "stored"
    /\ flights[i].startedAt <= flights[j].startedAt
    /\ flights[j].startedAt < flights[j].endedAt
    /\ flights[j].endedAt < flights[i].endedAt
    /\ flights[i].result # flights[j].result
    /\ cache[WeatherStackKey(flights[i].location)] =
         [t |-> "object", data |-> flights[i].result,
          timestamp |-> flights[i].endedAt]


(***************************************************************************)
(* C26.  The report page when submitReport rejects.                        *)
(***************************************************************************)
\* handleSubmit resumes in this step
ReportResumes == reportPage.step = "awaiting" /\ reportPage'.step = "idle"

\* the toast of a failed submission for an error
FailureToast(error) ==
  Toast("Submission Failed",
        <<"Could not submit report: ">> \o error.message \o <<". Please try again.">>)

\* C26: when handleSubmit resumes on a rejected submitReport, isSubmitted
\* stays false, aiResult is what it was, the one toast shown is the failure
\* toast carrying the error's message, and isAnalyzing is false; and
\* isSubmitted turns true only in a step that resumes on a resolved
\* submitReport.
RejectedSubmitLeavesPage ==
  [][/\ ReportResumes /\ report.kind = "rejected" =>
          /\ ~reportPage.isSubmitted /\ ~reportPage'.isSubmitted
          /\ reportPage'.aiResult = reportPage.aiResult
          /\ reportPage'.toasts = <<FailureToast(report.value)>>
          /\ ~reportPage'.isAnalyzing
     /\ ~reportPage.isSubmitted /\ reportPage'.isSubmitted =>
          /\ ReportResumes
          /\ pc = "reportDone" /\ report.kind = "resolved"
          /\ reportPage'.aiResult = report.value]_vars

\* a submission of a page that displays an analysis was rejected with the detail
\* the backend sent, and handleSubmit has resumed
RejectedSubmitResumed ==
  /\ reportPage.step = "idle"
  /\ pc = "reportDone" /\ report.kind = "rejected"
  /\ reportPage.aiResult # Null
  /\ ~reportPage.isSubmitted /\ ~reportPage.isAnalyzing
  /\ reportPage.toasts =
       <<Toast("Submission Failed",
               <<"Could not submit report: ", "Report submission failed: ",
                 "Image too large", ". Please try again.">>)>>

(***************************************************************************)
(* C27.  The prediction page always reaches the prediction report.         *)
(***************************************************************************)
\* handleSubmit has navigated to the prediction report with a results object
\* and isLoading is false
NavigatedWithResults ==
  /\ predictPage.step = "navigated"
  /\ predictPage.navigated # Null
  /\ predictPage.navigated.to = "/prediction-report"
  /\ predictPage.navigated.results.riskLevel.t = "string"
  /\ predictPage.navigated.results.location = predictPage.held.location
  /\ predictPage.navigated.results.state = predictPage.held.state
  /\ ~predictPage.isLoading

\* C27: a handleSubmit that passed its guard (location and state not empty)
\* leads to the navigation to the prediction report with a results object
\* and isLoading false, however predictOutbreak settles; and once it has
\* navigated isLoading stays false.
SubmitLeadsToReport ==
  /\ (predictPage.step = "awaitHealth") ~> NavigatedWithResults
  /\ [](predictPage.navigated # Null => [](~predictPage.isLoading))

\* predictOutbreak rejected on a response that was not ok, and the page
\* navigated with the fallback results
NavigatedAfterRejection ==
  /\ NavigatedWithResults
  /\ predictPage.promise.kind = "rejected"
  /\ predictPage.promise.value.message = <<"Model not loaded">>
  /\ predictPage.navigated.results.riskScore = FFromInt(65)

(***************************************************************************)
(* C28.  The weather fetches of the prediction page.                       *)
(***************************************************************************)
\* the weather fields of the form are those the i-th call of
\* fetchWeatherData received
ShowsWeatherOf(i) ==
  LET weatherData == predictPage.weatherFetches[i].data
      fd == predictPage.formData
  IN  /\ fd.temperature = NumberToString(weatherData.temperature)
      /\ fd.humidity = NumberToString(weatherData.humidity)
      /\ fd.rainfall = NumberToString(weatherData.rainfall)
      /\ fd.windSpeed = NumberToString(weatherData.windSpeed)

\* C28: every handleInputChange after which the location and the state are
\* both non-empty issues a weather fetch for the location and the state of
\* the form after the change; and when no fetch is pending and the fetch
\* issued last received numbers, the form shows the weather that fetch
\* received.
FetchIssuedForUpdatedForm ==
  /\ [][/\ predictPage'.changes = predictPage.changes + 1
        /\ predictPage'.formData.location # ""
        /\ predictPage'.formData.state # ""
        => /\ Len(predictPage'.weatherFetches) = Len(predictPage.weatherFetches) + 1
           /\ predictPage'.weatherFetches[Len(predictPage'.weatherFetches)].query =
                <<predictPage'.formData.location, ", ", predictPage'.formData.state>>]_vars
  /\ [](LET n == Len(predictPage.weatherFetches)
        IN  /\ n > 0
            /\ \A i \in 1..n : ~predictPage.weatherFetches[i].pending
            /\ \A f \in {"temperature", "humidity", "rainfall", "windSpeed"} :
                 predictPage.weatherFetches[n].data[f].t = "number"
            => ShowsWeatherOf(n))
====
